---------------------------- MODULE Spec2Model ----------------------------
(***************************************************************************)
(* A model of the decision-support core of kawaii-flywheel:                *)
(*   backend/coach/episode_tracker.py   EpisodeTracker                     *)
(*   backend/coach/coach_engine.py      CoachEngine                        *)
(*   backend/core/decision_object.py    DecisionObject                     *)
(*   backend/core/idea_core.py          IdeaCore                           *)
(*   backend/core/trend_context.py      TrendContext                       *)
(*                                                                         *)
(* Python dicts are functions with a set of string keys as their domain,   *)
(* so "key in d" is  key \in DOMAIN d  and {**a, **b} is  b @@ a.          *)
(* Timestamps (datetime.now().isoformat()) are readings of an integer      *)
(* clock that never runs backwards.  Rates such as a CTR are integers in   *)
(* units of 1/10000 (0.03 is 300).                                         *)
(***************************************************************************)
EXTENDS Integers, Sequences, FiniteSets, TLC

VARIABLES
    episodes,   \* EpisodeTracker._episodes, the in-memory history
    disk,       \* the content of episodes.json
    writable,   \* whether open(episodes_file, 'w') succeeds
    peer,       \* _episodes of a second EpisodeTracker on the same storage_dir
    clock,      \* the latest reading of datetime.now()
    last,       \* the last call: its operation, arguments and outcome
    decision,   \* the session's DecisionObject
    addCalls,   \* how many add_override calls the session has made
    idea,       \* an IdeaCore
    trend,      \* a TrendContext
    trendInput, \* the raw trend data a request carries
    rawInput,   \* the raw idea text a request carries
    cache,      \* TrendPriorEngine._cache: key -> (TrendContext, timestamp)
    source      \* how the trend source answers in this session

trackerVars == <<episodes, disk, writable, peer>>
decisionVars == <<decision, addCalls>>
coreVars == <<idea, trend, trendInput, rawInput, cache, source>>

----------------------------------------------------------------------------
(* Bounds of the exploration *)

MaxClock == 1
MaxNum == 2
MaxOverrides == 4

\* The history is explored up to one episode per explicit number.
MaxEpisodes == MaxNum

(* A timestamp that arrives inside the request body instead of being read  *)
(* from the clock.                                                         *)
ClientStamp == MaxClock + 7

----------------------------------------------------------------------------
(* Python dict helpers *)

EmptyDict == [k \in {} |-> 0]

Has(d, k) == k \in DOMAIN d

\* d.get(k, default)
Get(d, k, default) == IF k \in DOMAIN d THEN d[k] ELSE default

\* bool(d) of a dict
Truthy(d) == DOMAIN d # {}

Min(a, b) == IF a < b THEN a ELSE b
Max(a, b) == IF a > b THEN a ELSE b
Abs(a) == IF a < 0 THEN 0 - a ELSE a

----------------------------------------------------------------------------
(* EpisodeTracker *)

\* f"episode_{episode_num}"
episode_id_of(n) == <<"episode", n>>

\* episode_data.get('episode_num', len(self._episodes) + 1)
assigned_num(eps, data) == Get(data, "episode_num", Len(eps) + 1)

\* The dict literal of add_episode: the four stamped keys, then **episode_data.
new_episode(eps, data, t1, t2) ==
    data @@ [episode_id  |-> episode_id_of(assigned_num(eps, data)),
             episode_num |-> assigned_num(eps, data),
             created_at  |-> t1,
             updated_at  |-> t2]

\* next((i for i, ep in enumerate(eps) if ep.get('episode_num') == n), None);
\* 0 stands for None.
existing_idx(eps, n) ==
    IF \E i \in 1..Len(eps) : Get(eps[i], "episode_num", 0) = n
    THEN CHOOSE i \in 1..Len(eps) :
            /\ Get(eps[i], "episode_num", 0) = n
            /\ \A j \in 1..(i - 1) : Get(eps[j], "episode_num", 0) # n
    ELSE 0

add_episode_always_appends(eps, data, t1, t2) ==
    Append(eps, new_episode(eps, data, t1, t2))

add_episode_keeps_new_created_at(eps, data, t1, t2) ==
    LET episode == new_episode(eps, data, t1, t2)
        idx == existing_idx(eps, assigned_num(eps, data))
    IN  IF idx # 0 THEN [eps EXCEPT ![idx] = episode] ELSE Append(eps, episode)

\* The history after add_episode(episode_data).
add_episode(eps, data, t1, t2) ==
    LET episode == new_episode(eps, data, t1, t2)
        idx == existing_idx(eps, assigned_num(eps, data))
    IN  IF idx # 0
        THEN [eps EXCEPT ![idx] =
                [created_at |-> Get(eps[idx], "created_at", episode.created_at)]
                    @@ episode]
        ELSE Append(eps, episode)

save_episodes_writes_nothing(eps, file, ok) == file

\* _save_episodes: the whole history replaces the file; an IOError is
\* printed and swallowed, leaving the file as it was.
save_episodes(eps, file, ok) == IF ok THEN eps ELSE file

\* _load_episodes: the list the file holds; [] when there is no file (an
\* empty content here) and when reading or decoding fails.  The file holds
\* the JSON text of the list; the values of an episode are those of a JSON
\* request body and ISO time stamps, which json.load gives back as
\* json.dump took them.
load_episodes(file, readable) == IF readable THEN file ELSE <<>>

\* get_episode: the index of the first match, 0 for None.
get_episode(eps, n) == existing_idx(eps, n)

update_metrics_on_missing_appends(eps, n, actual, t) ==
    IF get_episode(eps, n) = 0
    THEN Append(eps, [episode_num |-> n, actual_metrics |-> actual, updated_at |-> t])
    ELSE [eps EXCEPT ![get_episode(eps, n)] =
            [actual_metrics |-> actual, updated_at |-> t] @@ @]

update_metrics_restamps_created_at(eps, n, actual, t) ==
    IF get_episode(eps, n) = 0
    THEN eps
    ELSE [eps EXCEPT ![get_episode(eps, n)] =
            [actual_metrics |-> actual, updated_at |-> t, created_at |-> t] @@ @]

\* The history after update_episode_metrics(n, actual) (unchanged when it raises).
update_episode_metrics(eps, n, actual, t) ==
    IF get_episode(eps, n) = 0
    THEN eps
    ELSE [eps EXCEPT ![get_episode(eps, n)] =
            [actual_metrics |-> actual, updated_at |-> t] @@ @]


----------------------------------------------------------------------------
(* CoachEngine.analyze_episode *)

\* Optional[...]: <<>> is None, <<v>> is the value v.
None == <<>>
Some(v) == <<v>>

\* f"{ctr*100:.1f}": a rate as a percentage with one decimal, in tenths of
\* a percent.
pct1(c) == IF c >= 0 THEN (c + 5) \div 10 ELSE 0 - ((5 - c) \div 10)

\* The insights list that analyze_episode builds for a stored episode.  The
\* strength and weakness messages format predicted['ctr']: a non-empty
\* predicted_metrics without that key has .get('ctr', 0) = 0 < 0.03 and so
\* reaches the weakness message, where the subscript raises KeyError.
insights_raise(ep) ==
    LET predicted == Get(ep, "predicted_metrics", EmptyDict)
    IN  /\ Truthy(predicted)
        /\ ~ Has(predicted, "ctr")
        /\ ~ (Get(predicted, "ctr", 0) > 500)
        /\ Get(predicted, "ctr", 0) < 300

predicted_insights(ep) ==
    LET predicted == Get(ep, "predicted_metrics", EmptyDict)
    IN  IF ~ Truthy(predicted) THEN <<>>
        ELSE IF Get(predicted, "ctr", 0) > 500
             THEN << [type |-> "strength",
                      message |-> <<"Strong CTR prediction", pct1(predicted.ctr)>>] >>
        ELSE IF Get(predicted, "ctr", 0) < 300
             THEN << [type |-> "weakness",
                      message |-> <<"Low CTR prediction", pct1(predicted.ctr)>>] >>
        ELSE <<>>

learning_insights(ep) ==
    LET predicted == Get(ep, "predicted_metrics", EmptyDict)
        actual == Get(ep, "actual_metrics", EmptyDict)
    IN  IF /\ Has(ep, "actual_metrics")
           /\ Truthy(actual)
           /\ Has(predicted, "ctr")
           /\ Has(actual, "ctr")
           /\ Abs(actual.ctr - predicted.ctr) > 100
        THEN << [type |-> "learning",
                 message |-> <<"CTR vs prediction", pct1(actual.ctr - predicted.ctr)>>] >>
        ELSE <<>>

build_insights(ep) == predicted_insights(ep) \o learning_insights(ep)

\* next((i for i in insights if i['type'] == ty), None)
first_of_type(insights, ty) ==
    IF \E i \in 1..Len(insights) : insights[i].type = ty
    THEN Some(insights[CHOOSE i \in 1..Len(insights) :
                /\ insights[i].type = ty
                /\ \A j \in 1..(i - 1) : insights[j].type # ty])
    ELSE None

primary_strength_first(ep, insights) ==
    IF first_of_type(insights, "strength") # None
    THEN [type |-> "strength",
          message |-> first_of_type(insights, "strength")[1].message,
          action |-> "Continue using this approach", priority |-> "low"]
    ELSE IF first_of_type(insights, "learning") # None
    THEN [type |-> "learning",
          message |-> first_of_type(insights, "learning")[1].message,
          action |-> "System is learning from this pattern", priority |-> "medium"]
    ELSE IF first_of_type(insights, "weakness") # None
    THEN [type |-> "weakness",
          message |-> first_of_type(insights, "weakness")[1].message,
          action |-> "Fix this first for maximum impact", priority |-> "high"]
    ELSE [type |-> "info", message |-> <<"Episode tracked - waiting for metrics", 0>>,
          action |-> "Add actual metrics when available", priority |-> "low"]

\* _get_primary_insight(episode, insights)
get_primary_insight(ep, insights) ==
    IF first_of_type(insights, "weakness") # None
    THEN [type |-> "weakness",
          message |-> first_of_type(insights, "weakness")[1].message,
          action |-> "Fix this first for maximum impact", priority |-> "high"]
    ELSE IF first_of_type(insights, "learning") # None
    THEN [type |-> "learning",
          message |-> first_of_type(insights, "learning")[1].message,
          action |-> "System is learning from this pattern", priority |-> "medium"]
    ELSE IF first_of_type(insights, "strength") # None
    THEN [type |-> "strength",
          message |-> first_of_type(insights, "strength")[1].message,
          action |-> "Continue using this approach", priority |-> "low"]
    ELSE IF Get(Get(ep, "predicted_metrics", EmptyDict), "ctr", 0) > 0
    THEN [type |-> "info",
          message |-> <<"Predicted CTR", pct1(ep.predicted_metrics.ctr)>>,
          action |-> "Monitor actual performance to validate prediction",
          priority |-> "medium"]
    ELSE [type |-> "info", message |-> <<"Episode tracked - waiting for metrics", 0>>,
          action |-> "Add actual metrics when available", priority |-> "low"]

\* What analyze_episode(n) gives its caller: the {'error': ...} dict, an
\* exception, or the analysis.
analyze_episode(eps, n) ==
    IF get_episode(eps, n) = 0
    THEN [kind |-> "error", error |-> <<"Episode not found", n>>]
    ELSE LET ep == eps[get_episode(eps, n)]
         IN  IF insights_raise(ep)
             THEN [kind |-> "raised", error |-> <<"KeyError", 0>>]
             ELSE [kind |-> "analysis",
                   episode_num |-> n,
                   insights |-> build_insights(ep),
                   primary_insight |-> get_primary_insight(ep, build_insights(ep)),
                   predicted_metrics |-> Get(ep, "predicted_metrics", EmptyDict),
                   actual_metrics |-> IF Has(ep, "actual_metrics")
                                      THEN Some(ep.actual_metrics) ELSE None]

----------------------------------------------------------------------------
(* DecisionObject *)

\* A str value, told apart from the Enum member that carries it.
Str(s) == <<"str", s>>

\* class OverrideReason(str, Enum): the members and their values.
OverrideReasonNames == {"PREFERENCE", "CONFIDENCE", "CONTEXT", "TESTING", "INTUITION"}
OverrideReason == {<<"OverrideReason", n>> : n \in OverrideReasonNames}
OverrideReasonValue ==
    [PREFERENCE |-> "preference", CONFIDENCE |-> "confidence", CONTEXT |-> "context",
     TESTING |-> "testing", INTUITION |-> "intuition"]

\* member.value
reason_value(member) == Str(OverrideReasonValue[member[2]])

\* isinstance(v, str) holds of a plain str and of every member (a str subclass).
is_str(v) == v[1] = "str" \/ v \in OverrideReason

\* OverrideReason(v): the member whose value equals v; defined when one exists.
reason_of(v) ==
    IF v \in OverrideReason THEN v
    ELSE CHOOSE m \in OverrideReason : reason_value(m) = v

\* DecisionObject(idea_core_id, trend_context_id, cognitive_budget=..., ...):
\* the remaining fields take their defaults, the two stamps their own
\* readings of the clock.
new_decision(budget, strength, t1, t2) ==
    [cls |-> "DecisionObject",
     idea_core_id |-> "test_idea_1",
     trend_context_id |-> "test_trend_1",
     project_id |-> None,
     thumbnail_style |-> None,
     thumbnail_claim |-> None,
     narration_hook |-> None,
     pacing_strategy |-> None,
     claim_strength |-> strength,
     cognitive_budget |-> budget,
     decisions_made |-> 0,
     overrides |-> <<>>,
     created_at |-> t1,
     updated_at |-> t2]

\* The defaults of the fields a caller may leave out (the two stamps default
\* to a reading of the clock, here the epoch).
decision_defaults ==
    [k \in DOMAIN new_decision(None, None, 0, 0)
            \ {"cls", "idea_core_id", "trend_context_id"} |->
        new_decision(None, None, 0, 0)[k]]

\* DecisionOverride(decision_id=..., ..., timestamp=now, notes=notes)
new_override(args, t) ==
    [cls |-> "DecisionOverride",
     decision_id |-> args.decision_id,
     system_recommendation |-> args.system_recommendation,
     user_choice |-> args.user_choice,
     reason |-> args.reason,
     timestamp |-> t,
     notes |-> args.notes]

add_override_replaces_same_decision(obj, args, t1, t2) ==
    LET same == {i \in 1..Len(obj.overrides) :
                    obj.overrides[i].decision_id = args.decision_id}
    IN  IF same = {}
        THEN [obj EXCEPT !.overrides = Append(@, new_override(args, t1)),
                         !.updated_at = t2]
        ELSE [obj EXCEPT !.overrides[CHOOSE i \in same : TRUE] = new_override(args, t1),
                         !.updated_at = t2]

\* The object after add_override(...).
add_override(obj, args, t1, t2) ==
    [obj EXCEPT !.overrides = Append(@, new_override(args, t1)),
                !.updated_at = t2]

get_override_count(obj) == Len(obj.overrides)

\* override.reason.value if isinstance(override.reason, OverrideReason)
\* else override.reason
summary_key(reason) == IF reason \in OverrideReason THEN reason_value(reason) ELSE reason

RECURSIVE summary_fold_no_increment(_, _)
summary_fold_no_increment(overrides, summary) ==
    IF overrides = <<>> THEN summary
    ELSE summary_fold_no_increment(Tail(overrides),
            (summary_key(Head(overrides).reason) :> 1) @@ summary)

\* The loop of get_override_summary: summary[reason] = summary.get(reason, 0) + 1
RECURSIVE summary_fold(_, _)
summary_fold(overrides, summary) ==
    IF overrides = <<>> THEN summary
    ELSE summary_fold(Tail(overrides),
            (summary_key(Head(overrides).reason)
                :> (Get(summary, summary_key(Head(overrides).reason), 0) + 1))
            @@ summary)

\* get_override_summary reads override.reason, an attribute: it needs
\* DecisionOverride instances and raises AttributeError on a dict.
get_override_summary(obj) ==
    IF \A i \in 1..Len(obj.overrides) : Has(obj.overrides[i], "cls")
    THEN [kind |-> "summary", summary |-> summary_fold(obj.overrides, EmptyDict)]
    ELSE [kind |-> "raised", summary |-> EmptyDict]

\* dataclasses.asdict: the fields of a dataclass instance as a dict,
\* recursing into the instances held in a list.
asdict_override(o) == [k \in DOMAIN o \ {"cls"} |-> o[k]]

asdict_decision(obj) ==
    [k \in DOMAIN obj \ {"cls"} |->
        IF k = "overrides"
        THEN [i \in 1..Len(obj.overrides) |->
                IF Has(obj.overrides[i], "cls")
                THEN asdict_override(obj.overrides[i])
                ELSE obj.overrides[i]]
        ELSE obj[k]]

\* DecisionObject.to_dict: asdict, then each override's reason member
\* replaced by its value.
decision_to_dict(obj) ==
    LET data == asdict_decision(obj)
    IN  [data EXCEPT !.overrides =
            [i \in 1..Len(data.overrides) |->
                IF Has(data.overrides[i], "reason")
                THEN [data.overrides[i] EXCEPT !.reason =
                        IF @ \in OverrideReason THEN reason_value(@) ELSE @]
                ELSE data.overrides[i]]]

\* DecisionObject.from_dict: each override dict's reason str replaced by the
\* member, then cls(**data): the overrides stay the dicts they were.
decision_from_dict(data) ==
    LET converted ==
            IF Has(data, "overrides")
            THEN [data EXCEPT !.overrides =
                    [i \in 1..Len(data.overrides) |->
                        IF Has(data.overrides[i], "reason") /\ is_str(data.overrides[i].reason)
                        THEN [data.overrides[i] EXCEPT !.reason = reason_of(@)]
                        ELSE data.overrides[i]]]
            ELSE data
    IN  [cls |-> "DecisionObject"] @@ converted @@ decision_defaults

----------------------------------------------------------------------------
(* IdeaCore *)

\* class ContentMode / TimeSensitivity / NoveltyAxis (str, Enum): each member
\* name with its value.
ContentModeValue ==
    [SHORT |-> "short", LONG_FORM |-> "long_form", TUTORIAL |-> "tutorial",
     REACTION |-> "reaction", PODCAST_CLIP |-> "podcast_clip", COMMENTARY |-> "commentary"]
TimeSensitivityValue ==
    [IMMEDIATE |-> "immediate", URGENT |-> "urgent", TIMELY |-> "timely",
     EVERGREEN |-> "evergreen"]
NoveltyAxisValue ==
    [NEW_ANGLE |-> "new_angle", NEW_TOOL |-> "new_tool", NEW_DATA |-> "new_data",
     NEW_FORMAT |-> "new_format", CONTRARIAN |-> "contrarian"]

EnumValues(enum) ==
    CASE enum = "ContentMode" -> ContentModeValue
      [] enum = "TimeSensitivity" -> TimeSensitivityValue
      [] enum = "NoveltyAxis" -> NoveltyAxisValue

Members(enum) == {<<enum, n>> : n \in DOMAIN EnumValues(enum)}

\* member.value
member_value(member) == Str(EnumValues(member[1])[member[2]])

\* isinstance(v, str): a plain str, or a member of a str-mixin Enum.
isinstance_str(v) == v[1] \in {"str", "ContentMode", "TimeSensitivity", "NoveltyAxis"}

\* Enum(v): v itself when it is a member, else the member whose value is v
\* (ValueError when there is none).
enum_call(enum, v) ==
    IF v \in Members(enum) THEN v
    ELSE CHOOSE m \in Members(enum) : member_value(m) = v

\* dataclasses.asdict of an IdeaCore or a TrendContext: the fields as a dict
\* (lists and dicts copied, members kept).
asdict(obj) == [k \in DOMAIN obj \ {"cls"} |-> obj[k]]

\* IdeaCore.to_dict: asdict, then the three members replaced by their values.
idea_to_dict(obj) ==
    [asdict(obj) EXCEPT !.content_mode = member_value(obj.content_mode),
                        !.time_sensitivity = member_value(obj.time_sensitivity),
                        !.novelty_axis = member_value(obj.novelty_axis)]

\* The defaults of IdeaCore's optional fields.
idea_defaults ==
    [hook_pressure |-> None, pacing_pressure |-> None, claim_strength_required |-> None]

idea_from_dict_skips_novelty(data) ==
    [cls |-> "IdeaCore"]
        @@ [data EXCEPT !.content_mode = enum_call("ContentMode", @),
                        !.time_sensitivity = enum_call("TimeSensitivity", @)]
        @@ idea_defaults

\* IdeaCore.from_dict: each of the three fields that holds a str becomes the
\* member with that value, then cls(**data).
idea_from_dict(data) ==
    LET convert(d, k, enum) ==
            IF Has(d, k) /\ isinstance_str(d[k])
            THEN [d EXCEPT ![k] = enum_call(enum, @)] ELSE d
    IN  [cls |-> "IdeaCore"]
            @@ convert(convert(convert(data, "content_mode", "ContentMode"),
                               "time_sensitivity", "TimeSensitivity"),
                       "novelty_axis", "NoveltyAxis")
            @@ idea_defaults

\* IdeaCore(...): the nine required fields and the three optional pressures.
new_idea(mode, sensitivity, novelty, keywords, pressure) ==
    [cls |-> "IdeaCore",
     core_claim |-> "How to automate your workflow with Cursor IDE in 2025",
     audience |-> "Productivity-obsessed millennials/Gen Z",
     emotional_hooks |-> <<"curiosity", "fear of missing out">>,
     content_mode |-> mode,
     time_sensitivity |-> sensitivity,
     novelty_axis |-> novelty,
     keywords |-> keywords,
     pain_points |-> <<"Time waste", "Inefficiency">>,
     value_propositions |-> <<"Save time", "Increase productivity">>,
     hook_pressure |-> pressure,
     pacing_pressure |-> pressure,
     claim_strength_required |-> pressure]

----------------------------------------------------------------------------
(* TrendContext *)

\* The floats of a TrendContext are counted in units of 1/Unit.  Unit is a
\* multiple of every divisor the computation meets (the volumes below, 500,
\* 1000, and the tenths of the weights), so each quotient is exact.
Unit == 1000 * 120

trend_velocity_unclamped(current_volume, volume_7d_ago) ==
    IF volume_7d_ago > 0
    THEN Max(0, ((current_volume - volume_7d_ago) * Unit) \div volume_7d_ago)
    ELSE Unit \div 2

\* min(1.0, max(0.0, (current_volume - volume_7d_ago) / volume_7d_ago)), or 0.5
trend_velocity(current_volume, volume_7d_ago) ==
    IF volume_7d_ago > 0
    THEN Min(Unit, Max(0, ((current_volume - volume_7d_ago) * Unit) \div volume_7d_ago))
    ELSE Unit \div 2

\* min(1.0, max(0.0, competition_count / 1000.0))
trend_saturation(competition_count) ==
    Min(Unit, Max(0, (competition_count * Unit) \div 1000))

trend_density_on_saturation_scale(competition_count) ==
    Min(Unit, Max(0, (competition_count * Unit) \div 1000))

\* min(1.0, max(0.0, competition_count / 500.0))
trend_competition_density(competition_count) ==
    Min(Unit, Max(0, (competition_count * Unit) \div 500))

\* (velocity * 0.6) + ((1 - saturation) * 0.4), clamped
trend_hook_pressure(velocity, saturation) ==
    Min(Unit, Max(0, (velocity * 6 + (Unit - saturation) * 4) \div 10))

\* velocity * 0.7 + (1 - saturation) * 0.3, clamped
trend_pacing_pressure(velocity, saturation) ==
    Min(Unit, Max(0, (velocity * 7 + (Unit - saturation) * 3) \div 10))

\* competition_density * 0.7 + (1 - saturation) * 0.3, clamped
trend_claim_strength(density, saturation) ==
    Min(Unit, Max(0, (density * 7 + (Unit - saturation) * 3) \div 10))

\* 0.9 with both histories, 0.7 with the 7-day one only, else 0.5
trend_confidence_of(volume_7d_ago, volume_30d_ago) ==
    IF volume_7d_ago > 0 /\ volume_30d_ago > 0 THEN (Unit * 9) \div 10
    ELSE IF volume_7d_ago > 0 THEN (Unit * 7) \div 10
    ELSE (Unit * 5) \div 10

\* TrendContext.compute_from_trend_data; data_sources is None or a list.
compute_from_trend_data(current_volume, volume_7d_ago, volume_30d_ago, competition_count, data_sources, t) ==
    LET velocity == trend_velocity(current_volume, volume_7d_ago)
        saturation == trend_saturation(competition_count)
        density == trend_competition_density(competition_count)
    IN  [cls |-> "TrendContext",
         velocity |-> velocity,
         saturation |-> saturation,
         competition_density |-> density,
         hook_pressure |-> trend_hook_pressure(velocity, saturation),
         pacing_pressure |-> trend_pacing_pressure(velocity, saturation),
         claim_strength_required |-> trend_claim_strength(density, saturation),
         trend_confidence |-> trend_confidence_of(volume_7d_ago, volume_30d_ago),
         data_sources |-> IF data_sources # None /\ data_sources[1] # <<>>
                          THEN data_sources[1] ELSE <<"google_trends">>,
         fetched_at |-> t,
         raw_data |-> Some([current_volume |-> current_volume,
                            volume_7d_ago |-> volume_7d_ago,
                            volume_30d_ago |-> volume_30d_ago,
                            competition_count |-> competition_count])]

\* TrendContext.default()
trend_default(t) ==
    [cls |-> "TrendContext",
     velocity |-> Unit \div 2,
     saturation |-> Unit \div 2,
     competition_density |-> Unit \div 2,
     hook_pressure |-> Unit \div 2,
     pacing_pressure |-> Unit \div 2,
     claim_strength_required |-> Unit \div 2,
     trend_confidence |-> (Unit * 3) \div 10,
     data_sources |-> <<>>,
     fetched_at |-> t,
     raw_data |-> None]

\* TrendContext.to_dict
trend_to_dict(obj) == asdict(obj)

\* TrendContext.from_dict: cls(**data), raw_data defaulting to None.
trend_from_dict(data) == [cls |-> "TrendContext"] @@ data @@ [raw_data |-> None]

\* The raw trend data of the specifications that do not vary it.
SampleTrendInput ==
    [current_volume |-> 80, volume_7d_ago |-> 60, volume_30d_ago |-> 40,
     competition_count |-> 300, data_sources |-> Some(<<"google_trends">>)]

\* The IdeaCore of the specifications that do not vary it.
SampleIdea ==
    new_idea(<<"ContentMode", "TUTORIAL">>, <<"TimeSensitivity", "EVERGREEN">>,
             <<"NoveltyAxis", "NEW_ANGLE">>, <<"automate", "workflow", "cursor">>, None)

\* No idea text under normalization, a TrendPriorEngine just constructed,
\* a trend source without pytrends.
IdleEngine ==
    /\ rawInput = ""
    /\ cache = EmptyDict
    /\ source = [available |-> FALSE]

----------------------------------------------------------------------------
(* The calls a client makes on the tracker and the coach *)

\* Request bodies of add-episode as the store's bookkeeping sees them: an
\* optional episode_num, the predicted metrics, an optional client-side
\* created_at.  Actual metrics arrive through update_episode_metrics.
NumParts == {EmptyDict} \cup {[episode_num |-> n] : n \in 1..MaxNum}
StorePredicted == {[ctr |-> 200, retention |-> 4000]}
StoreActual == {[ctr |-> 450, views |-> 1200]}
StampParts == {EmptyDict, [created_at |-> ClientStamp]}

StoreEpisodeData ==
    {a @@ [predicted_metrics |-> p] @@ d :
        a \in NumParts, p \in StorePredicted, d \in StampParts}

\* Request bodies as the coach's analysis sees them, numbered by the store.
\* The rates keep
\* |actual - predicted| away from exactly 0.01, where the float subtraction
\* of analyze_episode, not the decimal values, decides the comparison.
CoachPredicted ==
    {EmptyDict, [retention |-> 4000]}
        \cup {[ctr |-> c, retention |-> 4000] : c \in {0, 200, 400, 600}}
CoachActual == {[views |-> 1200]} \cup {[ctr |-> c, views |-> 1200] : c \in {250, 750}}
CoachPredParts == {EmptyDict} \cup {[predicted_metrics |-> p] : p \in CoachPredicted}
CoachActParts == {EmptyDict} \cup {[actual_metrics |-> a] : a \in CoachActual}

CoachEpisodeData ==
    {b @@ c : b \in CoachPredParts, c \in CoachActParts}

Nums == 1..(MaxNum + 1)

\* add_episode(data): two readings of the clock, the history, the file.
DoAddEpisode(data, t1, t2) ==
    /\ Len(add_episode(episodes, data, t1, t2)) <= MaxEpisodes
    /\ episodes' = add_episode(episodes, data, t1, t2)
    /\ disk' = save_episodes(episodes', disk, writable)
    /\ clock' = t2
    /\ last' = [op |-> "add_episode", data |-> data, t1 |-> t1, t2 |-> t2,
                num |-> assigned_num(episodes, data),
                ret |-> episode_id_of(assigned_num(episodes, data))]
    /\ UNCHANGED <<writable, peer, decisionVars, coreVars>>

\* update_episode_metrics(n, actual): ValueError before anything is touched
\* when the episode is missing.
DoUpdateMetrics(n, actual, t) ==
    IF get_episode(episodes, n) = 0
    THEN /\ last' = [op |-> "update_episode_metrics", num |-> n, actual |-> actual,
                     raised |-> "ValueError"]
         /\ episodes' = update_episode_metrics(episodes, n, actual, t)
         /\ UNCHANGED <<disk, writable, peer, clock, decisionVars, coreVars>>
    ELSE /\ episodes' = update_episode_metrics(episodes, n, actual, t)
         /\ disk' = save_episodes(episodes', disk, writable)
         /\ clock' = t
         /\ last' = [op |-> "update_episode_metrics", num |-> n, actual |-> actual,
                     raised |-> "no", t |-> t]
         /\ UNCHANGED <<writable, peer, decisionVars, coreVars>>

\* analyze_episode(n) reads the history and writes nothing.
DoAnalyze(n) ==
    /\ last' = [op |-> "analyze_episode", num |-> n,
                ret |-> analyze_episode(episodes, n)]
    /\ UNCHANGED <<trackerVars, clock, decisionVars, coreVars>>

AddEpisode ==
    \E data \in StoreEpisodeData, t1 \in clock..MaxClock :
        \E t2 \in t1..MaxClock : DoAddEpisode(data, t1, t2)

UpdateMetrics ==
    \E n \in Nums, actual \in StoreActual, t \in clock..MaxClock :
        DoUpdateMetrics(n, actual, t)

AnalyzeEpisode == \E n \in Nums : DoAnalyze(n)

CoachAddEpisode == \E data \in CoachEpisodeData : DoAddEpisode(data, clock, clock)

CoachUpdateMetrics ==
    \E n \in Nums, actual \in CoachActual : DoUpdateMetrics(n, actual, clock)

\* A tracker constructed on an empty storage directory.
TrackerInit ==
    /\ episodes = <<>>
    /\ disk = <<>>
    /\ writable \in BOOLEAN
    /\ peer = <<>>
    /\ clock = 0
    /\ last = [op |-> "init"]
    /\ decision = new_decision(None, None, 0, 0)
    /\ addCalls = 0
    /\ idea = SampleIdea
    /\ trend = trend_default(0)
    /\ trendInput = SampleTrendInput
    /\ IdleEngine

vars ==
    <<episodes, disk, writable, peer, clock, last, decision, addCalls, idea, trend, trendInput,
      rawInput, cache, source>>

\* The tracker's calls on a store that can be written; SpecPersist has the
\* store that cannot.
Init == TrackerInit /\ writable = TRUE

Next == AddEpisode \/ UpdateMetrics \/ AnalyzeEpisode

Spec == Init /\ [][Next]_vars

CoachNext == CoachAddEpisode \/ CoachUpdateMetrics \/ AnalyzeEpisode

\* The coach's calls on a store that can be written.
CoachInit == TrackerInit /\ writable = TRUE

SpecCoach == CoachInit /\ [][CoachNext]_vars

----------------------------------------------------------------------------
(* The calls a session makes on its DecisionObject *)

\* Arguments of add_override: two overrides of the same decision, and one
\* whose reason is given as a string.
OverrideArgs ==
    {[decision_id |-> "thumbnail_style", system_recommendation |-> "bold_claim",
      user_choice |-> "curiosity_gap", reason |-> <<"OverrideReason", "PREFERENCE">>,
      notes |-> None],
     [decision_id |-> "pacing_strategy", system_recommendation |-> "fast",
      user_choice |-> "slow", reason |-> Str("testing"),
      notes |-> Some("a/b test")],
     [decision_id |-> "thumbnail_style", system_recommendation |-> "bold_claim",
      user_choice |-> "question", reason |-> <<"OverrideReason", "INTUITION">>,
      notes |-> None]}

AddOverride ==
    \E args \in OverrideArgs, t1 \in clock..MaxClock :
        \E t2 \in t1..MaxClock :
            /\ Len(decision.overrides) < MaxOverrides
            /\ decision' = add_override(decision, args, t1, t2)
            /\ addCalls' = addCalls + 1
            /\ clock' = t2
            /\ last' = [op |-> "add_override", args |-> args, t1 |-> t1, t2 |-> t2]
            /\ UNCHANGED <<trackerVars, coreVars>>

GetOverrideCount ==
    /\ last' = [op |-> "get_override_count", ret |-> get_override_count(decision)]
    /\ UNCHANGED <<trackerVars, clock, decisionVars, coreVars>>

GetOverrideSummary ==
    /\ last' = [op |-> "get_override_summary", ret |-> get_override_summary(decision)]
    /\ UNCHANGED <<trackerVars, clock, decisionVars, coreVars>>

DecisionToDict ==
    /\ last' = [op |-> "to_dict", ret |-> decision_to_dict(decision)]
    /\ UNCHANGED <<trackerVars, clock, decisionVars, coreVars>>

\* DecisionObject.from_dict on the dict that to_dict has just returned.
DecisionFromDict ==
    /\ last.op = "to_dict"
    /\ last' = [op |-> "from_dict", data |-> last.ret, ret |-> decision_from_dict(last.ret)]
    /\ UNCHANGED <<trackerVars, clock, decisionVars, coreVars>>

\* A session constructs its DecisionObject with or without a cognitive
\* budget and a claim strength.
DecisionInit ==
    /\ episodes = <<>>
    /\ disk = <<>>
    /\ writable = TRUE
    /\ peer = <<>>
    /\ \E t1 \in 0..MaxClock : \E t2 \in t1..MaxClock :
        /\ clock = t2
        /\ \E budget \in {None, Some(5)}, strength \in {None, Some(8000)} :
            decision = new_decision(budget, strength, t1, t2)
    /\ addCalls = 0
    /\ idea = SampleIdea
    /\ trend = trend_default(0)
    /\ trendInput = SampleTrendInput
    /\ IdleEngine
    /\ last = [op |-> "init"]

DecisionNext ==
    \/ AddOverride
    \/ GetOverrideCount
    \/ GetOverrideSummary
    \/ DecisionToDict
    \/ DecisionFromDict

SpecDecision == DecisionInit /\ [][DecisionNext]_vars

----------------------------------------------------------------------------
(* The calls on IdeaCore and TrendContext *)

\* Search volumes (0 to 100 is typical, more is allowed) and competition
\* counts fed to compute_from_trend_data.
Volumes == {0, 40, 60, 80, 120}
Counts == {0, 100, 300, 500, 750, 1000, 2000}
SourceLists == {None, Some(<<>>), Some(<<"google_trends", "youtube">>)}

TrendInputs ==
    [current_volume : Volumes, volume_7d_ago : Volumes, volume_30d_ago : Volumes,
     competition_count : Counts, data_sources : SourceLists]

\* The inputs of the repository's own tests, and a request without history.
TestedTrendInputs ==
    {[current_volume |-> 80, volume_7d_ago |-> 60, volume_30d_ago |-> 40,
      competition_count |-> 300, data_sources |-> Some(<<"google_trends">>)],
     [current_volume |-> 90, volume_7d_ago |-> 85, volume_30d_ago |-> 80,
      competition_count |-> 200, data_sources |-> None],
     [current_volume |-> 50, volume_7d_ago |-> 0, volume_30d_ago |-> 0,
      competition_count |-> 0, data_sources |-> None]}

\* TrendContext.compute_from_trend_data on the request's raw trend data.
ComputeTrend ==
    \E t \in clock..MaxClock :
        /\ trend' = compute_from_trend_data(
                        trendInput.current_volume, trendInput.volume_7d_ago,
                        trendInput.volume_30d_ago, trendInput.competition_count,
                        trendInput.data_sources, t)
        /\ clock' = t
        /\ last' = [op |-> "compute_from_trend_data", args |-> trendInput]
        /\ UNCHANGED <<trackerVars, decisionVars, idea, trendInput, rawInput, cache, source>>

DefaultTrend ==
    \E t \in clock..MaxClock :
        /\ trend' = trend_default(t)
        /\ clock' = t
        /\ last' = [op |-> "default"]
        /\ UNCHANGED <<trackerVars, decisionVars, idea, trendInput, rawInput, cache, source>>

TrendToDict ==
    /\ last' = [op |-> "trend_to_dict", ret |-> trend_to_dict(trend)]
    /\ UNCHANGED <<trackerVars, decisionVars, coreVars, clock>>

\* TrendContext.from_dict on the dict that to_dict has just returned.
TrendFromDict ==
    /\ last.op = "trend_to_dict"
    /\ last' = [op |-> "trend_from_dict", data |-> last.ret,
                ret |-> trend_from_dict(last.ret)]
    /\ UNCHANGED <<trackerVars, decisionVars, coreVars, clock>>

IdeaToDict ==
    /\ last' = [op |-> "idea_to_dict", ret |-> idea_to_dict(idea)]
    /\ UNCHANGED <<trackerVars, decisionVars, coreVars, clock>>

\* IdeaCore.from_dict on the dict that to_dict has just returned.
IdeaFromDict ==
    /\ last.op = "idea_to_dict"
    /\ last' = [op |-> "idea_from_dict", data |-> last.ret,
                ret |-> idea_from_dict(last.ret)]
    /\ UNCHANGED <<trackerVars, decisionVars, coreVars, clock>>

\* The ideas whose serialization is explored: every combination of the three
\* variants, with and without keywords and trend pressures.
IdeaCores ==
    {new_idea(m, s, n, k, p) :
        m \in Members("ContentMode"), s \in Members("TimeSensitivity"),
        n \in Members("NoveltyAxis"),
        k \in {<<>>, <<"automate", "workflow", "cursor">>},
        p \in {None, Some(Unit \div 2)}}

IdleStore ==
    /\ episodes = <<>>
    /\ disk = <<>>
    /\ writable = TRUE
    /\ peer = <<>>
    /\ decision = new_decision(None, None, 0, 0)
    /\ addCalls = 0
    /\ clock = 0
    /\ last = [op |-> "init"]

\* Trend computation on inputs of every shape.
TrendInit ==
    IdleStore /\ IdleEngine /\ idea = SampleIdea /\ trend = trend_default(0)
        /\ trendInput \in TrendInputs

TrendNext == ComputeTrend \/ DefaultTrend \/ TrendToDict \/ TrendFromDict

SpecTrend == TrendInit /\ [][TrendNext]_vars

\* Serialization of every idea and of the tested trend contexts.
SerialInit ==
    IdleStore /\ IdleEngine /\ idea \in IdeaCores /\ trend = trend_default(0)
        /\ trendInput \in TestedTrendInputs

SerialNext ==
    \/ IdeaToDict
    \/ IdeaFromDict
    \/ ComputeTrend
    \/ DefaultTrend
    \/ TrendToDict
    \/ TrendFromDict

SpecSerial == SerialInit /\ [][SerialNext]_vars

----------------------------------------------------------------------------
(* Properties of the episode store *)

\* A step that changes the state and leaves last.op = op is a call of op
\* with the arguments recorded in last', made in the unprimed state.
IsCall(op) == last'.op = op

StoredWithNum(eps, n) == {i \in 1..Len(eps) : eps[i].episode_num = n}

StampedKeys == {"episode_id", "episode_num", "created_at", "updated_at"}

\* C1: add_episode for a number that is already stored leaves exactly one
\* episode with that number; its created_at is the one the earlier call
\* stored, and every other field is what the second call supplies: its
\* updated_at reading, its identifier, and exactly the metrics and snapshots
\* of its data.
C1_ReAddOverwritesInPlace ==
    [][ (IsCall("add_episode") /\ get_episode(episodes, last'.num) # 0) =>
            LET n == last'.num
                old == episodes[get_episode(episodes, n)]
                data == last'.data
            IN  /\ Cardinality(StoredWithNum(episodes', n)) = 1
                /\ \A i \in StoredWithNum(episodes', n) :
                    LET ep == episodes'[i]
                    IN  /\ ep.created_at = old.created_at
                        /\ ep.updated_at = last'.t2
                        /\ ep.episode_id = <<"episode", n>>
                        /\ DOMAIN ep = StampedKeys \cup DOMAIN data
                        /\ \A k \in DOMAIN data \ StampedKeys : ep[k] = data[k]
      ]_vars

\* A re-add has happened: the last call was an add_episode that read the
\* clock at 1 and sent no created_at, yet the stored created_at is 0.
C1_Witness ==
    /\ last.op = "add_episode"
    /\ ~ Has(last.data, "created_at")
    /\ last.t1 = 1
    /\ \E i \in StoredWithNum(episodes, last.num) :
          /\ episodes[i].created_at = 0
          /\ episodes[i].updated_at = 1

\* C2: no two stored episodes have the same episode_num.
C2_UniqueEpisodeNum ==
    \A i, j \in 1..Len(episodes) :
        i # j => episodes[i].episode_num # episodes[j].episode_num

\* Two episodes are stored, one of them re-added or updated after its
\* creation.
C2_Witness ==
    /\ Len(episodes) = 2
    /\ \E i \in 1..Len(episodes) : episodes[i].created_at < episodes[i].updated_at
    /\ last.op = "update_episode_metrics"
    /\ last.raised = "no"

\* C3: update_episode_metrics for a number that is not stored raises the
\* not-found error and leaves the history and the file as they were;
\* analyze_episode for such a number returns the not-found error and changes
\* neither.
C3_NotFoundChangesNothing ==
    [][ /\ (IsCall("update_episode_metrics") /\ get_episode(episodes, last'.num) = 0) =>
            /\ last'.raised = "ValueError"
            /\ episodes' = episodes
            /\ disk' = disk
        /\ (IsCall("analyze_episode") /\ get_episode(episodes, last'.num) = 0) =>
            /\ last'.ret.kind = "error"
            /\ episodes' = episodes
            /\ disk' = disk
      ]_vars

\* update_episode_metrics has just failed on a store that holds an episode
\* under another number.
C3_Witness ==
    /\ last.op = "update_episode_metrics"
    /\ last.raised = "ValueError"
    /\ Len(episodes) >= 1
    /\ disk = episodes

----------------------------------------------------------------------------
(* Properties of the coach's analysis *)

InsightTypes(insights) == {insights[i].type : i \in 1..Len(insights)}

\* C4: the primary insight of an analysis follows the priority weakness
\* (high) > learning (medium) > strength (low) > predicted-CTR message
\* (medium, when the predicted CTR is above 0) > waiting message (low); and
\* analysing an episode whose predicted CTR is below 0.03 gives a weakness
\* primary insight with priority high, with or without actual metrics.
C4_PrimaryInsightPriority ==
    (last.op = "analyze_episode" /\ get_episode(episodes, last.num) # 0) =>
        LET ep == episodes[get_episode(episodes, last.num)]
            predicted == Get(ep, "predicted_metrics", EmptyDict)
            r == last.ret
        IN  /\ r.kind = "analysis" =>
                LET types == InsightTypes(r.insights)
                    p == r.primary_insight
                IN  IF "weakness" \in types
                        THEN p.type = "weakness" /\ p.priority = "high"
                    ELSE IF "learning" \in types
                        THEN p.type = "learning" /\ p.priority = "medium"
                    ELSE IF "strength" \in types
                        THEN p.type = "strength" /\ p.priority = "low"
                    ELSE IF Has(predicted, "ctr") /\ predicted.ctr > 0
                        THEN /\ p.type = "info"
                             /\ p.message[1] = "Predicted CTR"
                             /\ p.priority = "medium"
                    ELSE /\ p.type = "info"
                         /\ p.message[1] = "Episode tracked - waiting for metrics"
                         /\ p.priority = "low"
            /\ (Has(predicted, "ctr") /\ predicted.ctr < 300) =>
                /\ r.kind = "analysis"
                /\ r.primary_insight.type = "weakness"
                /\ r.primary_insight.priority = "high"

\* An analysis that produced both a weakness and a learning insight and
\* chose the weakness.
C4_Witness ==
    /\ last.op = "analyze_episode"
    /\ last.ret.kind = "analysis"
    /\ InsightTypes(last.ret.insights) = {"weakness", "learning"}
    /\ last.ret.primary_insight.type = "weakness"

----------------------------------------------------------------------------
(* Properties of the DecisionObject *)

RECURSIVE SumOver(_, _)
SumOver(f, keys) ==
    IF keys = {} THEN 0
    ELSE LET k == CHOOSE x \in keys : TRUE
         IN  f[k] + SumOver(f, keys \ {k})

\* C5: the override list only grows at its end.  Every step keeps the
\* earlier overrides as a prefix; add_override appends exactly one entry,
\* built from its arguments, and sets updated_at to its reading of the
\* clock; get_override_count equals the number of add_override calls made.
C5_OverridesAppendOnly ==
    /\ [](get_override_count(decision) = addCalls)
    /\ [][ /\ Len(decision'.overrides) >= Len(decision.overrides)
           /\ SubSeq(decision'.overrides, 1, Len(decision.overrides)) = decision.overrides
           /\ IsCall("add_override") =>
                /\ Len(decision'.overrides) = Len(decision.overrides) + 1
                /\ LET o == decision'.overrides[Len(decision'.overrides)]
                   IN  /\ o.decision_id = last'.args.decision_id
                       /\ o.system_recommendation = last'.args.system_recommendation
                       /\ o.user_choice = last'.args.user_choice
                       /\ o.reason = last'.args.reason
                       /\ o.notes = last'.args.notes
                       /\ o.timestamp = last'.t1
                /\ decision'.updated_at = clock'
         ]_vars

\* Three overrides have been added, the last one for a decision that was
\* overridden before, at a later time than the object's creation.
C5_Witness ==
    /\ last.op = "add_override"
    /\ addCalls = 3
    /\ decision.overrides[1].decision_id = decision.overrides[3].decision_id
    /\ decision.created_at = 0
    /\ decision.updated_at = 1

\* C6: get_override_summary maps each reason that occurs among the
\* overrides, and no other, to the number of overrides with that reason; the
\* counts add up to get_override_count; three preference and one testing
\* give {preference: 3, testing: 1}.
C6_OverrideSummaryCounts ==
    last.op = "get_override_summary" =>
        LET ov == decision.overrides
            summary == last.ret.summary
            Text(r) == IF r \in OverrideReason THEN reason_value(r) ELSE r
            WithReason(v) == {i \in 1..Len(ov) : Text(ov[i].reason) = v}
        IN  /\ last.ret.kind = "summary"
            /\ DOMAIN summary = {Text(ov[i].reason) : i \in 1..Len(ov)}
            /\ \A v \in DOMAIN summary : summary[v] = Cardinality(WithReason(v))
            /\ SumOver(summary, DOMAIN summary) = get_override_count(decision)
            /\ ( /\ Cardinality(WithReason(Str("preference"))) = 3
                 /\ Cardinality(WithReason(Str("testing"))) = 1
                 /\ Len(ov) = 4 )
               => summary = (Str("preference") :> 3) @@ (Str("testing") :> 1)

\* The summary of three preference overrides and one testing override.
C6_Witness ==
    /\ last.op = "get_override_summary"
    /\ last.ret.summary = (Str("preference") :> 3) @@ (Str("testing") :> 1)

\* C7: DecisionObject.from_dict(x.to_dict()) equals x.
C7_DecisionRoundTrip ==
    last.op = "from_dict" => last.ret = decision

----------------------------------------------------------------------------
(* Properties of IdeaCore and TrendContext *)

\* C8: IdeaCore.from_dict(x.to_dict()) has every field of x, the three
\* variants included, and TrendContext.from_dict(t.to_dict()) has every
\* field of t, raw_data included.
C8_IdeaAndTrendRoundTrip ==
    /\ last.op = "idea_from_dict" =>
        /\ last.ret = idea
        /\ last.ret.content_mode \in Members("ContentMode")
        /\ last.ret.time_sensitivity \in Members("TimeSensitivity")
        /\ last.ret.novelty_axis \in Members("NoveltyAxis")
    /\ last.op = "trend_from_dict" =>
        /\ last.ret = trend
        /\ last.ret.raw_data = trend.raw_data

\* A computed TrendContext, carrying raw_data, has been sent through to_dict
\* and from_dict.
C8_Witness ==
    /\ last.op = "trend_from_dict"
    /\ trend.raw_data # None
    /\ last.data.raw_data = trend.raw_data
    /\ idea.content_mode = <<"ContentMode", "PODCAST_CLIP">>

PressureFields ==
    {"velocity", "saturation", "competition_density", "hook_pressure",
     "pacing_pressure", "claim_strength_required", "trend_confidence"}

\* C9: velocity, saturation, competition_density, the three pressures and
\* trend_confidence of every TrendContext made by compute_from_trend_data
\* (from non-negative volumes and counts) or by default() lie in [0, 1].
C9_TrendFieldsInUnitInterval ==
    \A k \in PressureFields : 0 <= trend[k] /\ trend[k] <= Unit

\* A context computed from a volume that tripled in a week and a count
\* above 1000: the raw growth rate and the raw saturation both exceed 1.
C9_Witness ==
    /\ last.op = "compute_from_trend_data"
    /\ last.args.volume_7d_ago > 0
    /\ last.args.current_volume >= 3 * last.args.volume_7d_ago
    /\ last.args.competition_count > 1000
    /\ trend.velocity = Unit
    /\ trend.saturation = Unit

\* clamp(x / 10) = y, stated without the division.
IsClampedTenth(y, x) ==
    IF x < 0 THEN y = 0 ELSE IF x > 10 * Unit THEN y = Unit ELSE 10 * y = x

\* C10: compute_from_trend_data returns velocity = clamp((current - v7)/v7)
\* when v7 > 0 and 0.5 otherwise, saturation = clamp(count/1000),
\* competition_density = clamp(count/500), hook_pressure =
\* clamp(0.6 velocity + 0.4 (1 - saturation)), pacing_pressure =
\* clamp(0.7 velocity + 0.3 (1 - saturation)), claim_strength_required =
\* clamp(0.7 competition_density + 0.3 (1 - saturation)), trend_confidence =
\* 0.9 with both histories, 0.7 with the 7-day one only, else 0.5; for
\* (80, 60, 40, 300): velocity 1/3, saturation 0.3, competition_density 0.6,
\* trend_confidence 0.9.
C10_TrendReferenceFormulas ==
    last.op = "compute_from_trend_data" =>
        LET cur == last.args.current_volume
            v7 == last.args.volume_7d_ago
            v30 == last.args.volume_30d_ago
            count == last.args.competition_count
            v == trend.velocity
            s == trend.saturation
            d == trend.competition_density
        IN  /\ IF v7 > 0
               THEN IF cur - v7 < 0 THEN v = 0
                    ELSE IF cur - v7 > v7 THEN v = Unit
                    ELSE v * v7 = (cur - v7) * Unit
               ELSE 2 * v = Unit
            /\ IF count > 1000 THEN s = Unit ELSE 1000 * s = count * Unit
            /\ IF count > 500 THEN d = Unit ELSE 500 * d = count * Unit
            /\ IsClampedTenth(trend.hook_pressure, 6 * v + 4 * (Unit - s))
            /\ IsClampedTenth(trend.pacing_pressure, 7 * v + 3 * (Unit - s))
            /\ IsClampedTenth(trend.claim_strength_required, 7 * d + 3 * (Unit - s))
            /\ 10 * trend.trend_confidence =
                    IF v7 > 0 /\ v30 > 0 THEN 9 * Unit
                    ELSE IF v7 > 0 THEN 7 * Unit
                    ELSE 5 * Unit
            /\ (cur = 80 /\ v7 = 60 /\ v30 = 40 /\ count = 300) =>
                    /\ 3 * v = Unit
                    /\ 10 * s = 3 * Unit
                    /\ 10 * d = 6 * Unit
                    /\ 10 * trend.trend_confidence = 9 * Unit

\* The context computed from (80, 60, 40, 300).
C10_Witness ==
    /\ last.op = "compute_from_trend_data"
    /\ last.args.current_volume = 80
    /\ last.args.volume_7d_ago = 60
    /\ last.args.volume_30d_ago = 40
    /\ last.args.competition_count = 300
    /\ 3 * trend.velocity = Unit

----------------------------------------------------------------------------
(* CognitiveLoadBudget *)

\* x > k/10 for a float x counted in units of 1/Unit.
AboveTenths(x, k) == 10 * x > k * Unit

\* a == b between str values and members of a str-mixin Enum: equal texts.
str_eq(a, b) ==
    LET text(v) == IF v[1] = "str" THEN v ELSE member_value(v)
    IN  text(a) = text(b)

base_decisions == 3
max_decisions == 7

\* The three multipliers of calculate, in tenths.
confidence_multiplier(trend_context) ==
    IF AboveTenths(trend_context.trend_confidence, 9) THEN 10
    ELSE IF AboveTenths(trend_context.trend_confidence, 7) THEN 11
    ELSE IF AboveTenths(trend_context.trend_confidence, 5) THEN 13
    ELSE 15

urgency_multiplier(idea_core) ==
    IF str_eq(idea_core.time_sensitivity, <<"TimeSensitivity", "IMMEDIATE">>) THEN 5
    ELSE IF str_eq(idea_core.time_sensitivity, <<"TimeSensitivity", "URGENT">>) THEN 7
    ELSE IF str_eq(idea_core.time_sensitivity, <<"TimeSensitivity", "TIMELY">>) THEN 9
    ELSE 10

experience_multiplier_generous(user_experience_level) ==
    IF user_experience_level = "beginner" THEN 8
    ELSE IF user_experience_level = "expert" THEN 14
    ELSE 10

experience_multiplier(user_experience_level) ==
    IF user_experience_level = "beginner" THEN 8
    ELSE IF user_experience_level = "expert" THEN 12
    ELSE 10

\* int(decisions * confidence * urgency * experience): the product of the
\* tenths is exact, and int() drops its fraction.  (The double product of
\* each of the 48 combinations has the same integer part.)
budget_product(trend_context, idea_core, user_experience_level) ==
    (base_decisions * confidence_multiplier(trend_context)
        * urgency_multiplier(idea_core)
        * experience_multiplier(user_experience_level)) \div 1000

calculate_without_floor(trend_context, idea_core, user_experience_level) ==
    Min(max_decisions, budget_product(trend_context, idea_core, user_experience_level))

\* CognitiveLoadBudget.calculate
calculate(trend_context, idea_core, user_experience_level) ==
    Max(base_decisions,
        Min(max_decisions,
            budget_product(trend_context, idea_core, user_experience_level)))

----------------------------------------------------------------------------
(* CoachEngine.predict_metrics *)

\* Rates before rounding are counted in millionths.
Micro == 1000 * 1000

\* round(x, 4) of a rate in millionths, as a count of 1/10000.  The two
\* products that fall on a decimal tie (0.03 * 1.1 * 1.15 and
\* 0.03 * 1.3 * 1.15) are doubles just below the tie, so ties go down.
round4(x) == (x + 49) \div 100

\* decision_object and decision_object.get('claim_strength'), then
\* claim_strength > 0.7; claim strengths are counts of 1/10000.
carries_bold_claim(decision_object) ==
    /\ decision_object # None
    /\ Truthy(decision_object[1])
    /\ Get(decision_object[1], "claim_strength", None) # None
    /\ Get(decision_object[1], "claim_strength", None)[1] # 0
    /\ Get(decision_object[1], "claim_strength", None)[1] > 7000

ctr_multiplier_steep(trend_context, decision_object) ==
    (IF AboveTenths(trend_context.hook_pressure, 7) THEN 16
     ELSE IF AboveTenths(trend_context.hook_pressure, 5) THEN 11
     ELSE 10)
    * (IF carries_bold_claim(decision_object) THEN 115 ELSE 100)

\* ctr_multiplier in thousandths: 1.3 / 1.1 / 1.0, times 1.15 for a bold claim.
ctr_multiplier(trend_context, decision_object) ==
    (IF AboveTenths(trend_context.hook_pressure, 7) THEN 13
     ELSE IF AboveTenths(trend_context.hook_pressure, 5) THEN 11
     ELSE 10)
    * (IF carries_bold_claim(decision_object) THEN 115 ELSE 100)

\* retention_multiplier in tenths.
retention_multiplier(trend_context) ==
    IF AboveTenths(trend_context.pacing_pressure, 7) THEN 12 ELSE 10

\* min(0.15, base_ctr * ctr_multiplier) and
\* min(0.80, base_retention * retention_multiplier), in millionths.
predicted_ctr(trend_context, decision_object) ==
    Min((15 * Micro) \div 100,
        (((3 * Micro) \div 100) * ctr_multiplier(trend_context, decision_object)) \div 1000)

predicted_retention(trend_context) ==
    Min((80 * Micro) \div 100,
        (((40 * Micro) \div 100) * retention_multiplier(trend_context)) \div 10)

\* int(k * velocity_multiplier) with velocity_multiplier = 1.0 + velocity * 0.5,
\* that is (2 * Unit + velocity) / (2 * Unit).
times_velocity(k, trend_context) ==
    (k * (2 * Unit + trend_context.velocity)) \div (2 * Unit)

\* int(predicted_retention * 100 * velocity_multiplier)
estimated_shares(trend_context) ==
    times_velocity((predicted_retention(trend_context) * 100) \div Micro, trend_context)

\* CoachEngine.predict_metrics (idea_core is not read).
predict_metrics(trend_context, decision_object) ==
    [ctr |-> round4(predicted_ctr(trend_context, decision_object)),
     retention |-> round4(predicted_retention(trend_context)),
     shares |-> estimated_shares(trend_context),
     views |-> [min |-> times_velocity(500, trend_context),
                max |-> times_velocity(2000, trend_context),
                expected |-> times_velocity(1000, trend_context)],
     confidence |-> trend_context.trend_confidence]

----------------------------------------------------------------------------
(* The calls that size a decision and predict its metrics *)

Tenths(k) == (Unit * k) \div 10

\* Trend contexts on both sides of every threshold that calculate and
\* predict_metrics test.
PredictTrends ==
    {[trend_default(0) EXCEPT !.trend_confidence = Tenths(c), !.hook_pressure = Tenths(h),
                              !.pacing_pressure = Tenths(p), !.velocity = v] :
        c \in {0, 3, 5, 6, 7, 8, 9, 10}, h \in {5, 6, 7, 8}, p \in {3, 7, 8},
        v \in {0, Tenths(2), Unit \div 3, Unit \div 2, Unit}}

PredictIdeas ==
    {new_idea(<<"ContentMode", "TUTORIAL">>, s, <<"NoveltyAxis", "NEW_ANGLE">>, <<>>, None) :
        s \in Members("TimeSensitivity")}

ExperienceLevels == {"beginner", "intermediate", "expert", "guru"}

\* decision_object of predict_metrics: absent, or a dict with or without a
\* claim strength.
DecisionDicts ==
    {None, Some(EmptyDict), Some([thumbnail_style |-> Some(Str("bold"))])}
        \cup {Some([claim_strength |-> c]) :
                c \in {None, Some(0), Some(5000), Some(7000), Some(8000)}}

Calculate ==
    \E level \in ExperienceLevels :
        /\ last' = [op |-> "calculate", level |-> level,
                    ret |-> calculate(trend, idea, level)]
        /\ UNCHANGED <<trackerVars, decisionVars, coreVars, clock>>

PredictMetrics ==
    \E decision_object \in DecisionDicts :
        /\ last' = [op |-> "predict_metrics", decision_object |-> decision_object,
                    ret |-> predict_metrics(trend, decision_object)]
        /\ UNCHANGED <<trackerVars, decisionVars, coreVars, clock>>

PredictInit ==
    IdleStore /\ IdleEngine /\ idea \in PredictIdeas /\ trend \in PredictTrends
        /\ trendInput = SampleTrendInput

PredictNext == Calculate \/ PredictMetrics

SpecPredict == PredictInit /\ [][PredictNext]_vars

----------------------------------------------------------------------------
(* Properties of the budget and the prediction *)

\* C11: calculate returns an integer in [3,7], the truncated product
\* 3 * confidence factor * urgency factor * experience factor clamped to
\* [3,7], for every confidence in [0,1], every time_sensitivity and every
\* experience level, recognised or not.
C11_BudgetInRange ==
    last.op = "calculate" =>
        LET c == trend.trend_confidence
            cf == IF 10 * c > 9 * Unit THEN 10 ELSE IF 10 * c > 7 * Unit THEN 11
                  ELSE IF 10 * c > 5 * Unit THEN 13 ELSE 15
            uf == [IMMEDIATE |-> 5, URGENT |-> 7, TIMELY |-> 9, EVERGREEN |-> 10]
                      [idea.time_sensitivity[2]]
            ef == IF last.level = "beginner" THEN 8
                  ELSE IF last.level = "expert" THEN 12 ELSE 10
            \* n is the truncated product: n <= 3 * cf * uf * ef / 1000 < n + 1
            n == CHOOSE k \in 0..10 :
                    1000 * k <= 3 * cf * uf * ef /\ 3 * cf * uf * ef < 1000 * (k + 1)
        IN  /\ last.ret \in 3..7
            /\ last.ret = (IF n < 3 THEN 3 ELSE IF n > 7 THEN 7 ELSE n)

\* calculate for an immediate idea and an unrecognised experience level:
\* the truncated product is below 3 and the result is 3.
C11_Witness ==
    /\ last.op = "calculate"
    /\ last.level = "guru"
    /\ idea.time_sensitivity = <<"TimeSensitivity", "IMMEDIATE">>
    /\ trend.trend_confidence = Unit
    /\ last.ret = 3

\* C12: predict_metrics returns ctr = min(0.15, 0.03 * m), m being 1.3 / 1.1
\* / 1.0 by hook_pressure (> 0.7, > 0.5, else) times 1.15 exactly when the
\* decision object carries claim_strength > 0.7, and retention =
\* min(0.80, 0.40 * r), r being 1.2 when pacing_pressure > 0.7 and 1.0
\* otherwise; hook 0.8, pacing 0.3, velocity 0.2 without a decision object
\* give ctr 0.039 and retention 0.40.
C12_PredictedRates ==
    last.op = "predict_metrics" =>
        LET d == last.decision_object
            bold == /\ d # None
                    /\ "claim_strength" \in DOMAIN d[1]
                    /\ d[1].claim_strength # None
                    /\ d[1].claim_strength[1] > 7000
            m == (IF 10 * trend.hook_pressure > 7 * Unit THEN 130
                  ELSE IF 10 * trend.hook_pressure > 5 * Unit THEN 110 ELSE 100)
                 * (IF bold THEN 115 ELSE 100)
            r == IF 10 * trend.pacing_pressure > 7 * Unit THEN 12 ELSE 10
            \* a returned rate x (a count of 1/10000) equals q millionths
            Is(x, q) == 100 * x = q
        IN  /\ Is(last.ret.ctr, IF 3 * m > 150000 THEN 150000 ELSE 3 * m)
            /\ Is(last.ret.retention, IF 40000 * r > 800000 THEN 800000 ELSE 40000 * r)
            /\ ( /\ d = None
                 /\ 10 * trend.hook_pressure = 8 * Unit
                 /\ 10 * trend.pacing_pressure = 3 * Unit
                 /\ 10 * trend.velocity = 2 * Unit )
               => (last.ret.ctr = 390 /\ last.ret.retention = 4000)

\* C13: the shares of predict_metrics are predicted_retention * 100 *
\* velocity_multiplier rounded to the nearest integer, velocity_multiplier
\* being 1 + 0.5 * velocity.
C13_SharesRounded ==
    last.op = "predict_metrics" =>
        LET r == IF 10 * trend.pacing_pressure > 7 * Unit THEN 12 ELSE 10
            \* predicted_retention * 100 * velocity_multiplier = num / (2 * Unit)
            num == (IF 4 * r > 80 THEN 80 ELSE 4 * r) * (2 * Unit + trend.velocity)
        IN  2 * Abs(num - 2 * Unit * last.ret.shares) <= 2 * Unit

----------------------------------------------------------------------------
(* str: the methods the normalization and the cache key use *)

\* The lower-case letter of each ASCII upper-case letter.
AsciiLower ==
    [A |-> "a", B |-> "b", C |-> "c", D |-> "d", E |-> "e", F |-> "f", G |-> "g",
     H |-> "h", I |-> "i", J |-> "j", K |-> "k", L |-> "l", M |-> "m", N |-> "n",
     O |-> "o", P |-> "p", Q |-> "q", R |-> "r", S |-> "s", T |-> "t", U |-> "u",
     V |-> "v", W |-> "w", X |-> "x", Y |-> "y", Z |-> "z"]

\* str.lower() (on ASCII text), half by half.
RECURSIVE lower(_)
lower(text) ==
    IF text = "" THEN ""
    ELSE IF Len(text) = 1
         THEN (IF text \in DOMAIN AsciiLower THEN AsciiLower[text] ELSE text)
    ELSE LET half == Len(text) \div 2
         IN  lower(SubSeq(text, 1, half)) \o lower(SubSeq(text, half + 1, Len(text)))

\* kw in text
contains(text, kw) ==
    \E i \in 1..(Len(text) - Len(kw) + 1) : SubSeq(text, i, i + Len(kw) - 1) = kw

\* text[:n]
prefix(text, n) == SubSeq(text, 1, IF Len(text) < n THEN Len(text) ELSE n)

Whitespace == {" ", "\t", "\n"}

is_space(text, i) == SubSeq(text, i, i) \in Whitespace

\* str.split(): the maximal runs of non-whitespace, in order; word by word.
RECURSIVE split(_)
split(text) ==
    LET n == Len(text)
    IN  IF \A i \in 1..n : is_space(text, i) THEN <<>>
        ELSE LET first == CHOOSE i \in 1..n :
                              ~is_space(text, i) /\ \A j \in 1..(i - 1) : is_space(text, j)
                 stop == CHOOSE j \in first..n :
                             /\ \A k \in first..j : ~is_space(text, k)
                             /\ j = n \/ is_space(text, j + 1)
             IN  <<SubSeq(text, first, stop)>> \o split(SubSeq(text, stop + 1, n))

\* str.strip(): without the whitespace at either end.
RECURSIVE strip(_)
strip(text) ==
    IF text = "" THEN ""
    ELSE IF is_space(text, 1) THEN strip(Tail(text))
    ELSE IF is_space(text, Len(text)) THEN strip(SubSeq(text, 1, Len(text) - 1))
    ELSE text

----------------------------------------------------------------------------
(* IdeaCore.from_raw_input *)

\* any(kw in text for kw in kws)
any_keyword(text, kws) == \E kw \in kws : contains(text, kw)

\* [word for word in words if len(word) > 4]
long_words(words) == SelectSeq(words, LAMBDA word : Len(word) > 4)

\* IdeaCore._basic_extraction: the three categories from the keyword sets
\* found in raw_input.lower() (if / elif, so the earlier set wins), the long
\* words as keywords, the first 200 characters as the claim, the rest fixed.
\* trend_context is not read.
basic_extraction(raw_input, trend_context) ==
    LET lowered == lower(raw_input)
        keywords == long_words(split(lowered))
        content_mode ==
            IF any_keyword(lowered, {"short", "shorts", "quick", "60 seconds"}) THEN "SHORT"
            ELSE IF any_keyword(lowered, {"tutorial", "how to", "guide", "step"})
                 THEN "TUTORIAL"
            ELSE IF any_keyword(lowered, {"react", "reaction", "watching"}) THEN "REACTION"
            ELSE "LONG_FORM"
        time_sensitivity ==
            IF any_keyword(lowered, {"now", "urgent", "breaking", "today"}) THEN "IMMEDIATE"
            ELSE IF any_keyword(lowered, {"soon", "this week", "trending"}) THEN "TIMELY"
            ELSE "EVERGREEN"
        novelty_axis ==
            IF any_keyword(lowered, {"new tool", "new app", "new software"}) THEN "NEW_TOOL"
            ELSE IF any_keyword(lowered, {"nobody talks", "unpopular", "contrarian"})
                 THEN "CONTRARIAN"
            ELSE "NEW_ANGLE"
    IN  [new_idea(<<"ContentMode", content_mode>>, <<"TimeSensitivity", time_sensitivity>>,
                  <<"NoveltyAxis", novelty_axis>>,
                  SubSeq(keywords, 1, IF Len(keywords) < 10 THEN Len(keywords) ELSE 10),
                  None)
         EXCEPT !.core_claim = prefix(raw_input, 200)]

\* What a call returns to its caller: a value, or an exception that escapes.
Returned(v) == [kind |-> "returned", value |-> v]
Raised(exc) == [kind |-> "raised", exc |-> exc]

\* Enum(v) succeeds: v is a member or the value of one.
declares(enum, v) ==
    v \in Members(enum) \/ \E m \in Members(enum) : member_value(m) = v

\* IdeaCore._llm_extraction.  model_router says whether it has chat and what
\* the call does; a response says its type and, for text, what
\* re.search(r'\{[\s\S]*\}') and json.loads find in it.  An exception of the
\* call, no match, a JSONDecodeError and a ValueError of an Enum lead to
\* _basic_extraction; re.search on a response that is not text raises
\* TypeError, which the handler around it does not name.
llm_extraction(raw_input, model_router, trend_context) ==
    LET basic == Returned(basic_extraction(raw_input, trend_context))
        response ==
            IF model_router.chat = "missing" THEN [type |-> "str", found |-> "nothing"]
            ELSE model_router.response
        data == response.data
        field(k, default) == Get(data, k, default)
    IN  IF model_router.chat = "raises" THEN basic
        ELSE IF response.type # "str" THEN Raised("TypeError")
        ELSE IF response.found # "object" THEN basic
        ELSE IF ~ /\ declares("ContentMode", field("content_mode", Str("long_form")))
                  /\ declares("TimeSensitivity", field("time_sensitivity", Str("evergreen")))
                  /\ declares("NoveltyAxis", field("novelty_axis", Str("new_angle")))
             THEN basic
        ELSE Returned(
            [cls |-> "IdeaCore",
             core_claim |-> field("core_claim", prefix(raw_input, 200)),
             audience |-> field("audience", "Productivity-obsessed millennials/Gen Z"),
             emotional_hooks |-> field("emotional_hooks", <<"curiosity">>),
             content_mode |->
                 enum_call("ContentMode", field("content_mode", Str("long_form"))),
             time_sensitivity |->
                 enum_call("TimeSensitivity", field("time_sensitivity", Str("evergreen"))),
             novelty_axis |->
                 enum_call("NoveltyAxis", field("novelty_axis", Str("new_angle"))),
             keywords |-> field("keywords", <<>>),
             pain_points |-> field("pain_points", <<>>),
             value_propositions |-> field("value_propositions", <<>>)]
                @@ idea_defaults)

\* IdeaCore.from_raw_input: without a model router the basic extraction, with
\* one the LLM extraction.
from_raw_input(raw_input, model_router, trend_context) ==
    IF model_router = None THEN Returned(basic_extraction(raw_input, trend_context))
    ELSE llm_extraction(raw_input, model_router[1], trend_context)

----------------------------------------------------------------------------
(* The calls that normalize an idea *)

MaxWords == 2

\* Words that are keywords of the three categories, that hold one inside
\* ("knowledge" holds "now"), or that make one together ("new tool").
IdeaWords ==
    {"tutorial", "quick", "knowledge", "trending", "Reaction", "new", "tool", "unpopular"}

RECURSIVE join(_)
join(words) ==
    IF Len(words) = 0 THEN ""
    ELSE IF Len(words) = 1 THEN words[1]
    ELSE words[1] \o " " \o join(Tail(words))

RECURSIVE repeat(_, _)
repeat(text, n) == IF n = 0 THEN "" ELSE text \o repeat(text, n - 1)

\* A text of more than 200 characters and more than 10 long words.
LongIdeaText == repeat("automation tutorial ", 11)

RawInputs ==
    {join(ws) : ws \in UNION {[1..n -> IdeaWords] : n \in 1..MaxWords}}
        \cup {"", "  Step by step:\tGUIDE\n", LongIdeaText}

\* The JSON objects a response may carry: empty, complete, partial, and with
\* an undeclared value in each of the three Enum fields.
ResponseData ==
    {EmptyDict,
     [core_claim |-> "Vim in a week", audience |-> "Developers",
      emotional_hooks |-> <<"mastery">>, content_mode |-> Str("short"),
      time_sensitivity |-> Str("urgent"), novelty_axis |-> Str("new_format"),
      keywords |-> <<"vim">>, pain_points |-> <<"Slow editing">>,
      value_propositions |-> <<"Edit faster">>],
     [content_mode |-> Str("commentary")],
     [content_mode |-> Str("livestream")],
     [time_sensitivity |-> Str("yesterday")],
     [core_claim |-> "Vim in a week", novelty_axis |-> Str("viral")]}

Responses ==
    {[type |-> t] : t \in {"NoneType", "dict", "bytes"}}
        \cup {[type |-> "str", found |-> f] : f \in {"nothing", "malformed"}}
        \cup {[type |-> "str", found |-> "object", data |-> d] : d \in ResponseData}

ModelRouters ==
    {[chat |-> "missing"], [chat |-> "raises"]}
        \cup {[chat |-> "returns", response |-> r] : r \in Responses}

\* A direct call of _basic_extraction, as the normalize endpoint makes it.
BasicExtraction ==
    /\ idea' = basic_extraction(rawInput, None)
    /\ last' = [op |-> "_basic_extraction", ret |-> Returned(idea')]
    /\ UNCHANGED <<trackerVars, decisionVars, trend, trendInput, rawInput, cache, source,
                   clock>>

\* from_raw_input(raw_input, model_router) without a trend context.
FromRawInput ==
    \E model_router \in {None} \cup {Some(r) : r \in ModelRouters} :
        LET ret == from_raw_input(rawInput, model_router, None)
        IN  /\ idea' = IF ret.kind = "returned" THEN ret.value ELSE idea
            /\ last' = [op |-> "from_raw_input", model_router |-> model_router, ret |-> ret]
            /\ UNCHANGED <<trackerVars, decisionVars, trend, trendInput, rawInput, cache,
                           source, clock>>

IdeaInit ==
    /\ IdleStore
    /\ cache = EmptyDict
    /\ source = [available |-> FALSE]
    /\ rawInput \in RawInputs
    /\ idea = SampleIdea
    /\ trend = trend_default(0)
    /\ trendInput = SampleTrendInput

IdeaNext == BasicExtraction \/ FromRawInput

SpecIdea == IdeaInit /\ [][IdeaNext]_vars

----------------------------------------------------------------------------
(* Properties of the idea normalization *)

\* The generator outcomes after which from_raw_input is to return the basic
\* extraction: no chat interface, the call raises, the response is not text,
\* holds no JSON object, holds malformed JSON, or holds an undeclared value
\* in an Enum field.
FailedGeneration(model_router) ==
    \/ model_router.chat \in {"missing", "raises"}
    \/ model_router.response.type # "str"
    \/ model_router.response.found # "object"
    \/ LET data == model_router.response.data
       IN  \/ ~declares("ContentMode", Get(data, "content_mode", Str("long_form")))
           \/ ~declares("TimeSensitivity", Get(data, "time_sensitivity", Str("evergreen")))
           \/ ~declares("NoveltyAxis", Get(data, "novelty_axis", Str("new_angle")))

\* C14: from_raw_input with a text generator never raises to the caller, and
\* after every failed generation it returns the IdeaCore that _basic_extraction
\* produces for the same raw text.
C14_NeverRaises ==
    (last.op = "from_raw_input" /\ last.model_router # None) =>
        /\ last.ret.kind = "returned"
        /\ FailedGeneration(last.model_router[1]) =>
                last.ret.value = basic_extraction(rawInput, None)

\* The keywords of time_sensitivity.
UrgencyKeywords == {"now", "urgent", "breaking", "today", "soon", "this week", "trending"}

\* C15: _basic_extraction on an input that contains "tutorial" and none of the
\* urgency keywords yields content_mode = tutorial and time_sensitivity =
\* evergreen.
C15_TutorialEvergreen ==
    (/\ last.op = "_basic_extraction"
     /\ contains(rawInput, "tutorial")
     /\ ~any_keyword(lower(rawInput), UrgencyKeywords)) =>
        /\ last.ret.value.content_mode = <<"ContentMode", "TUTORIAL">>
        /\ last.ret.value.time_sensitivity = <<"TimeSensitivity", "EVERGREEN">>

----------------------------------------------------------------------------
(* GoogleTrendsFetcher and TrendPriorEngine *)

\* _default_trend_data, read at time t.
default_trend_data(t) ==
    [current_volume |-> 50, volume_7d_ago |-> 50, volume_30d_ago |-> 50,
     trend_direction |-> "stable", related_queries |-> <<>>, timeframe |-> "today 3-m",
     fetched_at |-> t, error |-> "Failed to fetch trend data"]

\* related_queries[keyword]['top']['query'].head(5).tolist(): the first five
\* top queries, each named by its rank.
top_queries(answer) ==
    IF answer.top.kind = "top"
    THEN [i \in 1..(IF answer.top.count < 5 THEN answer.top.count ELSE 5) |-> i]
    ELSE <<>>

\* fetch_trend_data.  src.available is the fetcher's flag; src.answer says
\* what pytrends does: interest_over_time raises, is empty, or is a series of
\* so many points with its last, 7th-last and 30th-last values;
\* related_queries raises, has no top table, or has one of so many rows.
fetch_trend_data(src, t) ==
    IF ~src.available THEN default_trend_data(t)
    ELSE IF src.answer.interest.kind \in {"raises", "empty"} THEN default_trend_data(t)
    ELSE LET series == src.answer.interest
             current_volume == series.current
             volume_7d_ago ==
                 IF series.points >= 7 THEN series.ago7 ELSE (current_volume * 9) \div 10
             volume_30d_ago ==
                 IF series.points >= 30 THEN series.ago30 ELSE (current_volume * 8) \div 10
             \* change_7d > 0.1, < -0.1
             trend_direction ==
                 IF volume_7d_ago > 0
                 THEN IF 10 * (current_volume - volume_7d_ago) > volume_7d_ago
                        THEN "rising"
                      ELSE IF 10 * (current_volume - volume_7d_ago) < 0 - volume_7d_ago
                        THEN "falling"
                      ELSE "stable"
                 ELSE "stable"
         IN  [current_volume |-> current_volume, volume_7d_ago |-> volume_7d_ago,
              volume_30d_ago |-> volume_30d_ago, trend_direction |-> trend_direction,
              related_queries |-> top_queries(src.answer), timeframe |-> "today 3-m",
              fetched_at |-> t]

\* estimate_competition_count: 500 without pytrends, on an exception and
\* without a top table, else min(1000, query_count * 50).
estimate_competition_count(src) ==
    IF ~src.available THEN 500
    ELSE IF src.answer.top.kind # "top" THEN 500
    ELSE Min(1000, src.answer.top.count * 50)

\* self.cache_ttl = timedelta(minutes=5); time is counted in minutes.
cache_ttl == 5

\* _get_cache_key
get_cache_key(core_claim) == prefix(strip(lower(core_claim)), 100)

is_cache_valid_inclusive(timestamp, now) == now - timestamp <= cache_ttl

\* _is_cache_valid, with now the reading of datetime.now()
is_cache_valid(timestamp, now) == now - timestamp < cache_ttl

stop_words ==
    {"the", "a", "an", "and", "or", "but", "in", "on", "at", "to", "for", "of", "with",
     "by", "is", "are", "was", "were", "be", "been", "being", "have", "has", "had", "do",
     "does", "did", "will", "would", "should", "could", "may", "might", "must", "can",
     "this", "that", "these", "those"}

\* _extract_keywords: the first three words longer than 3 that are no stop
\* words, else the first word, else 'trending'.
extract_keywords(text) ==
    LET keywords ==
            SelectSeq(split(lower(text)), LAMBDA w : Len(w) > 3 /\ w \notin stop_words)
    IN  IF keywords # <<>>
        THEN SubSeq(keywords, 1, IF Len(keywords) < 3 THEN Len(keywords) ELSE 3)
        ELSE IF split(text) # <<>> THEN <<split(text)[1]>>
        ELSE <<"trending">>

\* compute_trend_prior past the cache: the context built from what the
\* source gives for the primary keyword at time t, with the source's data as
\* raw_data.
fetch_trend_prior(primary_keyword, src, t) ==
    LET trend_data == fetch_trend_data(src, t)
        competition_count == estimate_competition_count(src)
        trend_context ==
            compute_from_trend_data(trend_data.current_volume, trend_data.volume_7d_ago,
                                    trend_data.volume_30d_ago, competition_count,
                                    Some(<<"google_trends">>), t)
    IN  [trend_context EXCEPT
            !.raw_data = Some([primary_keyword |-> primary_keyword,
                               competition_count |-> competition_count] @@ trend_data)]

\* self._cache[cache_key] = (trend_context, datetime.now())
cache_put(entries, key, trend_context, timestamp) ==
    [k \in DOMAIN entries \cup {key} |->
        IF k = key THEN [context |-> trend_context, timestamp |-> timestamp]
        ELSE entries[k]]

----------------------------------------------------------------------------
(* The calls on the trend prior engine *)

MaxMinutes == 6

\* Two claims with one key (case and outer whitespace apart), and two that
\* differ past their first 100 characters only.
LongClaim == repeat("ai tools ", 12)
CoreClaims ==
    {"How to automate", "  HOW TO Automate\n", LongClaim \o "for work",
     LongClaim \o "for play"}

\* _get_cache_key and keywords[0] of _extract_keywords, tabulated over the
\* claims of the calls.
CacheKeyOf == [core_claim \in CoreClaims |-> get_cache_key(core_claim)]
PrimaryKeywordOf == [core_claim \in CoreClaims |-> extract_keywords(core_claim)[1]]

\* What pytrends does when it is called.
SourceAnswers ==
    {[interest |-> [kind |-> "raises"], top |-> [kind |-> "raises"]],
     [interest |-> [kind |-> "empty"], top |-> [kind |-> "top", count |-> 6]],
     [interest |-> [kind |-> "series", points |-> 90, current |-> 80, ago7 |-> 60,
                    ago30 |-> 40],
      top |-> [kind |-> "none"]],
     [interest |-> [kind |-> "series", points |-> 5, current |-> 50, ago7 |-> 0,
                    ago30 |-> 0],
      top |-> [kind |-> "top", count |-> 25]]}

\* compute_trend_prior(core_claim, use_cache).  now is the time of the call
\* (read by _is_cache_valid, and the fetched_at of what is fetched), stored
\* the later reading that stamps the cache entry.  last keeps the age of the
\* entry the call found under its key and whether the source was called.
ComputeTrendPrior ==
    \E core_claim \in CoreClaims, use_cache \in BOOLEAN, now \in clock..MaxMinutes :
        \E stored \in {now, Min(now + 1, MaxMinutes)} :
            LET cache_key == CacheKeyOf[core_claim]
                found == use_cache /\ Has(cache, cache_key)
                hit == found /\ is_cache_valid(cache[cache_key].timestamp, now)
                trend_context == fetch_trend_prior(PrimaryKeywordOf[core_claim], source, now)
            IN  /\ cache' = IF ~hit /\ use_cache
                            THEN cache_put(cache, cache_key, trend_context, stored)
                            ELSE cache
                /\ clock' = IF ~hit /\ use_cache THEN stored ELSE now
                /\ last' = [op |-> "compute_trend_prior", core_claim |-> core_claim,
                            use_cache |-> use_cache, now |-> now,
                            age |-> IF found THEN Some(now - cache[cache_key].timestamp)
                                    ELSE None,
                            fetched |-> ~hit,
                            ret |-> IF hit THEN cache[cache_key].context ELSE trend_context]
                /\ UNCHANGED <<trackerVars, decisionVars, idea, trend, trendInput, rawInput,
                               source>>

\* clear_cache
ClearCache ==
    /\ cache' = EmptyDict
    /\ last' = [op |-> "clear_cache"]
    /\ UNCHANGED <<trackerVars, decisionVars, idea, trend, trendInput, rawInput, source,
                   clock>>

\* A TrendPriorEngine just constructed, without pytrends or with a pytrends
\* that answers in one of these ways.
EngineInit ==
    /\ IdleStore
    /\ rawInput = ""
    /\ cache = EmptyDict
    /\ source \in {[available |-> FALSE]}
                    \cup {[available |-> TRUE, answer |-> a] : a \in SourceAnswers}
    /\ idea = SampleIdea
    /\ trend = trend_default(0)
    /\ trendInput = SampleTrendInput

EngineNext == ComputeTrendPrior \/ ClearCache

SpecEngine == EngineInit /\ [][EngineNext]_vars

----------------------------------------------------------------------------
(* Properties of the trend prior engine *)

\* C16: when no trend data is obtainable (the source is unavailable or its
\* fetch fails), the TrendContext that compute_trend_prior returns is the
\* neutral default: velocity, saturation, competition_density and the three
\* pressures 0.5, trend_confidence 0.3, no data sources.
C16_NeutralDefault ==
    (/\ last.op = "compute_trend_prior"
     /\ last.fetched
     /\ ~source.available \/ source.answer.interest.kind = "raises") =>
        /\ last.ret.velocity = Unit \div 2
        /\ last.ret.saturation = Unit \div 2
        /\ last.ret.competition_density = Unit \div 2
        /\ last.ret.hook_pressure = Unit \div 2
        /\ last.ret.pacing_pressure = Unit \div 2
        /\ last.ret.claim_strength_required = Unit \div 2
        /\ last.ret.trend_confidence = (Unit * 3) \div 10
        /\ last.ret.data_sources = <<>>

\* The claim lower-cased, stripped and cut to 100 characters.
NormalizedClaim == [core_claim \in CoreClaims |-> prefix(strip(lower(core_claim)), 100)]

\* C18: with caching enabled, a call whose key (the claim lower-cased,
\* stripped, cut to 100 characters) has an entry stored less than 5 minutes
\* before returns the cached context, does not call the source and leaves the
\* cache alone; with an entry stored 5 minutes or more before, it calls the
\* source and replaces the entry by the new context with a new timestamp.
C18_CacheTTL ==
    [][(last'.op = "compute_trend_prior" /\ last'.use_cache) =>
        LET key == NormalizedClaim[last'.core_claim]
        IN  Has(cache, key) =>
                IF last'.now - cache[key].timestamp < 5
                THEN /\ last'.ret = cache[key].context
                     /\ ~last'.fetched
                     /\ cache' = cache
                ELSE /\ last'.fetched
                     /\ last'.ret.fetched_at = last'.now
                     /\ Has(cache', key)
                     /\ cache'[key].context = last'.ret
                     /\ cache'[key].timestamp >= last'.now
                     /\ \A k \in DOMAIN cache \ {key} : cache'[k] = cache[k]]_vars

\* A call exactly 5 minutes after its key's entry was stored, made under
\* another spelling of the claim, called the source and replaced the entry.
C18_Witness ==
    /\ last.op = "compute_trend_prior"
    /\ last.use_cache
    /\ last.age = Some(5)
    /\ last.fetched
    /\ last.core_claim = "  HOW TO Automate\n"
    /\ cache["how to automate"].context = last.ret
    /\ cache["how to automate"].timestamp >= last.now

----------------------------------------------------------------------------
(* The episode store across trackers *)

\* Request bodies with nested predicted metrics, with and without the
\* snapshots of the idea and the decision.
PersistPredicted ==
    [ctr |-> 390, retention |-> 4000, shares |-> 44,
     views |-> [min |-> 500, max |-> 2000, expected |-> 1000], confidence |-> 7000]
SnapshotParts ==
    {EmptyDict,
     [idea_core |-> idea_to_dict(SampleIdea),
      decision_object |-> decision_to_dict(new_decision(Some(5), Some(8000), 0, 0))]}
PersistEpisodeData ==
    {a @@ [predicted_metrics |-> PersistPredicted] @@ b :
        a \in {EmptyDict, [episode_num |-> 1]}, b \in SnapshotParts}

\* add_episode when both readings of the clock give the same time.
PersistAddEpisode ==
    \E data \in PersistEpisodeData, t \in clock..MaxClock : DoAddEpisode(data, t, t)

\* EpisodeTracker(storage_dir) on the same directory: the new tracker's
\* history is what _load_episodes reads.
Reopen ==
    \E readable \in BOOLEAN :
        /\ episodes' = load_episodes(disk, readable)
        /\ last' = [op |-> "reopen", readable |-> readable]
        /\ UNCHANGED <<disk, writable, peer, clock, decisionVars, coreVars>>

PersistNext == PersistAddEpisode \/ UpdateMetrics \/ Reopen

SpecPersist == TrackerInit /\ [][PersistNext]_vars

----------------------------------------------------------------------------
(* Properties of the episode store *)

\* add_episode, or update_episode_metrics that did not raise.
Mutated(l) ==
    l.op = "add_episode" \/ (l.op = "update_episode_metrics" /\ l.raised = "no")

C19_UpdateFrame ==
    [][(IsCall("update_episode_metrics") /\ last'.raised = "no") =>
        LET i == get_episode(episodes, last'.num)
            touched == {"actual_metrics", "updated_at"}
        IN  /\ Len(episodes') = Len(episodes)
            /\ \A j \in 1..Len(episodes) : j # i => episodes'[j] = episodes[j]
            /\ episodes'[i].actual_metrics = last'.actual
            /\ episodes'[i].updated_at = last'.t
            /\ DOMAIN episodes'[i] = DOMAIN episodes[i] \cup touched
            /\ \A k \in DOMAIN episodes[i] \ touched : episodes'[i][k] = episodes[i][k]
      ]_vars

\* The second of two episodes, one with snapshots, has just received its
\* metrics at a later time than it was created.
C19_Witness ==
    /\ last.op = "update_episode_metrics"
    /\ last.raised = "no"
    /\ Len(episodes) = 2
    /\ get_episode(episodes, last.num) = 2
    /\ Has(episodes[2], "decision_object")
    /\ episodes[2].actual_metrics = last.actual
    /\ episodes[2].created_at < episodes[2].updated_at
    /\ ~Has(episodes[1], "actual_metrics")

\* C20: for any input data, the record add_episode stores for a new episode
\* number carries the time of the call in created_at and in updated_at, a
\* re-added episode carries it in updated_at, and the stored record's
\* episode_id is the identifier that add_episode returns.
C20_StampedWithCurrentTime ==
    [][IsCall("add_episode") =>
        LET stored == episodes'[get_episode(episodes', last'.num)]
        IN  /\ stored.episode_id = last'.ret
            /\ stored.updated_at = last'.t2
            /\ get_episode(episodes, last'.num) = 0 => stored.created_at = last'.t1
      ]_vars

----------------------------------------------------------------------------
(* Further properties of the budget and the prediction *)

\* C30: calculate never returns 6 or 7: for every trend_confidence in [0,1],
\* every time_sensitivity and every experience level the result is 3, 4 or 5,
\* and it is 3 whenever time_sensitivity is immediate.
C30_NeverSixOrSeven ==
    last.op = "calculate" =>
        /\ last.ret \in {3, 4, 5}
        /\ idea.time_sensitivity = <<"TimeSensitivity", "IMMEDIATE">> => last.ret = 3

\* The largest budget: an expert, an evergreen idea and the lowest
\* confidence give int(3 * 1.5 * 1.0 * 1.2) = 5.
C30_Witness ==
    /\ last.op = "calculate"
    /\ last.level = "expert"
    /\ idea.time_sensitivity = <<"TimeSensitivity", "EVERGREEN">>
    /\ trend.trend_confidence = 0
    /\ last.ret = 5

----------------------------------------------------------------------------
(* Predictions that are tracked as episodes and then analysed *)

ForecastTrends ==
    {[trend_default(0) EXCEPT !.hook_pressure = Tenths(h), !.pacing_pressure = Tenths(p),
                              !.velocity = v] :
        h \in {5, 7, 8, 10}, p \in {7, 8}, v \in {0, Unit}}

\* An episode is tracked with the metrics that predict_metrics just returned.
TrackPrediction ==
    /\ last.op = "predict_metrics"
    /\ DoAddEpisode([predicted_metrics |-> last.ret], clock, clock)

ForecastInit ==
    IdleStore /\ IdleEngine /\ idea = SampleIdea /\ trend \in ForecastTrends
        /\ trendInput = SampleTrendInput

ForecastNext == PredictMetrics \/ TrackPrediction \/ CoachUpdateMetrics \/ AnalyzeEpisode

SpecForecast == ForecastInit /\ [][ForecastNext]_vars

\* C29: for every TrendContext with fields in [0,1] and every decision
\* object, predict_metrics returns a ctr of at least 0.03 and below 0.05 and
\* a retention between 0.40 and 0.48; and the analysis of an episode whose
\* predicted_metrics came from predict_metrics completes and holds neither
\* a weakness nor a strength insight, with or without actual metrics.
C29_PredictionsInNeutralBand ==
    /\ last.op = "predict_metrics" =>
        /\ last.ret.ctr >= 300 /\ last.ret.ctr < 500
        /\ last.ret.retention >= 4000 /\ last.ret.retention <= 4800
    /\ \A i \in 1..Len(episodes) :
        /\ episodes[i].predicted_metrics.ctr >= 300
        /\ episodes[i].predicted_metrics.ctr < 500
    /\ (last.op = "analyze_episode" /\ get_episode(episodes, last.num) # 0) =>
        /\ last.ret.kind = "analysis"
        /\ InsightTypes(last.ret.insights) \cap {"weakness", "strength"} = {}

\* The analysis of a tracked prediction at the top of the band (high hook
\* pressure and a bold claim), after actual metrics far from it arrived.
C29_Witness ==
    /\ last.op = "analyze_episode"
    /\ get_episode(episodes, last.num) # 0
    /\ last.ret.kind = "analysis"
    /\ episodes[get_episode(episodes, last.num)].predicted_metrics.ctr > 400
    /\ InsightTypes(last.ret.insights) = {"learning"}

----------------------------------------------------------------------------
(* Further properties of the coach's analysis *)

\* C27: for every stored episode, whatever its predicted and actual metrics
\* contain (missing, empty, or present without a ctr entry), analyze_episode
\* completes and returns exactly one primary insight whose type is weakness,
\* learning, strength or info, and the insights never hold both a strength
\* and a weakness.
C27_AnalysisAlwaysCompletes ==
    (last.op = "analyze_episode" /\ get_episode(episodes, last.num) # 0) =>
        /\ last.ret.kind = "analysis"
        /\ last.ret.primary_insight.type \in {"weakness", "learning", "strength", "info"}
        /\ ~ ({"strength", "weakness"} \subseteq InsightTypes(last.ret.insights))

----------------------------------------------------------------------------
(* A DecisionObject restored from its own dict *)

\* The session replaces its DecisionObject by from_dict(to_dict(...)) of it.
RestoreDecision ==
    /\ decision' = decision_from_dict(decision_to_dict(decision))
    /\ last' = [op |-> "restore", original |-> decision]
    /\ UNCHANGED <<trackerVars, clock, addCalls, coreVars>>

RestoreNext == AddOverride \/ GetOverrideCount \/ GetOverrideSummary \/ RestoreDecision

SpecRestore == DecisionInit /\ [][RestoreNext]_vars

\* C28: a DecisionObject restored by from_dict(to_dict(x)) from an object
\* with overrides is fully usable: get_override_count and
\* get_override_summary give the results they give on the original, and
\* after a further add_override a to_dict and from_dict keep every override.
C28_RestoredFullyUsable ==
    /\ last.op = "restore" =>
        /\ get_override_count(decision) = get_override_count(last.original)
        /\ get_override_summary(decision) = get_override_summary(last.original)
    /\ last.op = "get_override_summary" => last.ret.kind = "summary"
    /\ Len(decision_from_dict(decision_to_dict(decision)).overrides) = addCalls

----------------------------------------------------------------------------
(* Further properties of the episode store *)

\* C25: add_episode called without an episode_num never overwrites an
\* episode: in every reachable history, those built with explicit numbers
\* included, the number it assigns is not in use, the history grows by one
\* and every earlier episode stays as it was.
C25_AutoNumberNeverOverwrites ==
    [][(IsCall("add_episode") /\ ~ Has(last'.data, "episode_num")) =>
        /\ get_episode(episodes, last'.num) = 0
        /\ Len(episodes') = Len(episodes) + 1
        /\ SubSeq(episodes', 1, Len(episodes)) = episodes
      ]_vars

----------------------------------------------------------------------------
(* Starting a tracker on a store in any condition *)

\* What a new tracker finds where its store should be: the file as it was
\* written, no file, a file that cannot be opened or read (IOError), a text
\* that is not JSON (JSONDecodeError), bytes that are not text in the
\* file's encoding (UnicodeDecodeError), a storage_dir that cannot be
\* created because its parent is missing (FileNotFoundError from mkdir).
StoreConditions ==
    {"intact", "missing", "io_error", "not_json", "undecodable", "no_directory"}

\* __init__ under each condition: storage_dir.mkdir(exist_ok=True) is not
\* guarded; in _load_episodes the except clause names json.JSONDecodeError
\* and IOError, and UnicodeDecodeError is a ValueError that is neither.
read_store(file, condition) ==
    IF condition = "no_directory" THEN Raised("FileNotFoundError")
    ELSE IF condition = "undecodable" THEN Raised("UnicodeDecodeError")
    ELSE Returned(load_episodes(file, condition = "intact"))

\* EpisodeTracker(storage_dir): the caller has the new tracker when the
\* constructor returns, and what it had before when it raises.
Startup ==
    \E condition \in StoreConditions :
        /\ episodes' = IF read_store(disk, condition).kind = "returned"
                       THEN read_store(disk, condition).value
                       ELSE episodes
        /\ last' = [op |-> "startup", condition |-> condition,
                    ret |-> read_store(disk, condition)]
        /\ UNCHANGED <<disk, writable, peer, clock, decisionVars, coreVars>>

StartupNext == PersistAddEpisode \/ UpdateMetrics \/ Startup

SpecStartup == TrackerInit /\ [][StartupNext]_vars

\* C23: persistence failures are never fatal.  A tracker started on a store
\* file that cannot be read or parsed starts with an empty history, and an
\* add_episode or update_episode_metrics whose write fails completes with
\* its change applied to the history in memory.
C23_StoreFailuresNeverFatal ==
    /\ last.op = "startup" =>
        /\ last.ret.kind = "returned"
        /\ last.condition # "intact" => episodes = <<>>
    /\ last.op = "add_episode" =>
        /\ get_episode(episodes, last.num) # 0
        /\ episodes[get_episode(episodes, last.num)].predicted_metrics
                = last.data.predicted_metrics
    /\ (last.op = "update_episode_metrics" /\ last.raised = "no") =>
        episodes[get_episode(episodes, last.num)].actual_metrics = last.actual

----------------------------------------------------------------------------
(* Two trackers on one store, their calls serialized *)

SharedEpisodeData ==
    {[predicted_metrics |-> [ctr |-> c, retention |-> 4000]] : c \in {200, 400, 600}}

\* add_episode on the first tracker.
SharedAddEpisode == \E data \in SharedEpisodeData : DoAddEpisode(data, clock, clock)

\* add_episode on the second tracker: its own history is what it mutates
\* and what _save_episodes writes over the file.
PeerAddEpisode ==
    \E data \in SharedEpisodeData :
        /\ Len(add_episode(peer, data, clock, clock)) <= MaxEpisodes
        /\ peer' = add_episode(peer, data, clock, clock)
        /\ disk' = save_episodes(peer', disk, writable)
        /\ last' = [op |-> "peer_add_episode", data |-> data,
                    num |-> assigned_num(peer, data),
                    ret |-> episode_id_of(assigned_num(peer, data))]
        /\ UNCHANGED <<episodes, writable, clock, decisionVars, coreVars>>

\* The second tracker is constructed (again) and loads the file.
PeerStart ==
    /\ peer' = load_episodes(disk, TRUE)
    /\ last' = [op |-> "peer_start"]
    /\ UNCHANGED <<episodes, disk, writable, clock, decisionVars, coreVars>>

SharedNext == SharedAddEpisode \/ PeerAddEpisode \/ PeerStart

SpecShared == Init /\ [][SharedNext]_vars

\* C24: when the mutations of two trackers that share one store are
\* serialized, no update is lost: the persisted store holds every episode
\* that either tracker has added.
C24_NoLostUpdate ==
    /\ \A i \in 1..Len(episodes) : \E j \in 1..Len(disk) : disk[j] = episodes[i]
    /\ \A i \in 1..Len(peer) : \E j \in 1..Len(disk) : disk[j] = peer[i]

----------------------------------------------------------------------------
(* Further properties of the idea normalization *)

\* The keys the prompt of _llm_extraction asks the response to carry.
ResponseKeys ==
    {"core_claim", "audience", "emotional_hooks", "content_mode", "time_sensitivity",
     "novelty_axis", "keywords", "pain_points", "value_propositions"}

\* C21: when the response holds a JSON object from which any of the nine
\* keys is absent, from_raw_input returns what _basic_extraction returns for
\* the raw input, not an IdeaCore built from the partial response.
C21_PartialResponseFallsBack ==
    ( /\ last.op = "from_raw_input"
      /\ last.model_router # None
      /\ last.model_router[1].chat = "returns"
      /\ last.model_router[1].response.type = "str"
      /\ last.model_router[1].response.found = "object"
      /\ ~ (ResponseKeys \subseteq DOMAIN last.model_router[1].response.data) )
        => last.ret = Returned(basic_extraction(rawInput, None))

----------------------------------------------------------------------------
(* Normalizing an idea with a trend context at hand *)

TrendedInputs == {"quick tutorial", "trending new tool", "unpopular knowledge"}

\* from_raw_input(raw_input, model_router, trend_context), the trend
\* context given or left out.
FromRawInputWithTrend ==
    \E model_router \in {None} \cup {Some(r) : r \in ModelRouters},
       trend_context \in {None, Some(trend)} :
        LET ret == from_raw_input(rawInput, model_router, trend_context)
        IN  /\ idea' = IF ret.kind = "returned" THEN ret.value ELSE idea
            /\ last' = [op |-> "from_raw_input", model_router |-> model_router,
                        trend_context |-> trend_context, ret |-> ret]
            /\ UNCHANGED <<trackerVars, decisionVars, trend, trendInput, rawInput, cache,
                           source, clock>>

IdeaTrendInit ==
    /\ IdleStore
    /\ cache = EmptyDict
    /\ source = [available |-> FALSE]
    /\ rawInput \in TrendedInputs
    /\ idea = SampleIdea
    /\ trend \in ForecastTrends
    /\ trendInput = SampleTrendInput

SpecIdeaTrend == IdeaTrendInit /\ [][FromRawInputWithTrend]_vars

\* C22: whenever from_raw_input is given a TrendContext, the IdeaCore it
\* returns has hook_pressure, pacing_pressure and claim_strength_required
\* filled in with values in [0,1] taken from that TrendContext; the three
\* fields are unset only when no TrendContext is given.
C22_PressuresFromTrend ==
    (last.op = "from_raw_input" /\ last.ret.kind = "returned") =>
        LET ret == last.ret.value
            filled(v) == v # None /\ v[1] >= 0 /\ v[1] <= Unit
        IN  IF last.trend_context # None
            THEN /\ filled(ret.hook_pressure)
                 /\ filled(ret.pacing_pressure)
                 /\ filled(ret.claim_strength_required)
            ELSE /\ ret.hook_pressure = None
                 /\ ret.pacing_pressure = None
                 /\ ret.claim_strength_required = None

----------------------------------------------------------------------------
(* EpisodeTracker.get_learning_arc *)

\* get_all_episodes: sorted(self._episodes, key=episode_num), a stable sort.
RECURSIVE get_all_episodes(_)
get_all_episodes(eps) ==
    IF eps = <<>> THEN <<>>
    ELSE LET least == CHOOSE i \in 1..Len(eps) :
                        /\ \A j \in 1..Len(eps) :
                            Get(eps[i], "episode_num", 0) <= Get(eps[j], "episode_num", 0)
                        /\ \A j \in 1..(i - 1) :
                            Get(eps[j], "episode_num", 0) # Get(eps[i], "episode_num", 0)
         IN  <<eps[least]>>
                \o get_all_episodes(SubSeq(eps, 1, least - 1) \o SubSeq(eps, least + 1, Len(eps)))

RECURSIVE SumSeq(_)
SumSeq(s) == IF s = <<>> THEN 0 ELSE Head(s) + SumSeq(Tail(s))

\* ep.get('decisions', {}).get('claim_strength', 0) > 0.7: a snapshot that
\* carries claim_strength None compares None with a float, a TypeError.
claim_comparison_raises(ep) ==
    /\ Has(Get(ep, "decisions", EmptyDict), "claim_strength")
    /\ Get(ep, "decisions", EmptyDict).claim_strength = None

has_bold_claim(ep) ==
    /\ Has(Get(ep, "decisions", EmptyDict), "claim_strength")
    /\ Get(ep, "decisions", EmptyDict).claim_strength # None
    /\ Get(ep, "decisions", EmptyDict).claim_strength[1] > 7000

\* _extract_patterns: nothing below two episodes; the average predicted CTR
\* of the episodes with a bold claim, kept as the quotient <<sum, count>>,
\* makes a pattern when it is above 0.05.
extract_patterns(eps) ==
    IF Len(eps) < 2 THEN Returned(<<>>)
    ELSE IF \E i \in 1..Len(eps) : claim_comparison_raises(eps[i])
    THEN Raised("TypeError")
    ELSE LET bold == SelectSeq(eps, has_bold_claim)
             ctrs == [i \in 1..Len(bold) |->
                        Get(Get(bold[i], "predicted_metrics", EmptyDict), "ctr", 0)]
         IN  IF bold # <<>> /\ SumSeq(ctrs) > 500 * Len(bold)
             THEN Returned(<< [pattern |-> "Bold claims -> Higher CTR",
                               avg_ctr |-> <<SumSeq(ctrs), Len(bold)>>,
                               confidence |-> "medium",
                               episodes_analyzed |-> Len(bold)] >>)
             ELSE Returned(<<>>)

\* _calculate_accuracy: the mean absolute errors over the episodes that
\* carry the metric on both sides, each kept as the quotient <<sum, count>>.
calculate_accuracy(eps) ==
    LET with_actuals == SelectSeq(eps, LAMBDA ep : Has(ep, "actual_metrics"))
        both(ep, k) ==
            /\ Has(Get(ep, "predicted_metrics", EmptyDict), k)
            /\ Has(Get(ep, "actual_metrics", EmptyDict), k)
        errors(k) ==
            LET carrying == SelectSeq(with_actuals, LAMBDA ep : both(ep, k))
            IN  [i \in 1..Len(carrying) |->
                    Abs(carrying[i].predicted_metrics[k] - carrying[i].actual_metrics[k])]
        mae(k) == IF errors(k) = <<>> THEN None
                  ELSE Some(<<SumSeq(errors(k)), Len(errors(k))>>)
    IN  IF with_actuals = <<>>
        THEN [has_actuals |-> FALSE, message |-> "No episodes with actual metrics yet"]
        ELSE [has_actuals |-> TRUE,
              episodes_with_actuals |-> Len(with_actuals),
              ctr_mae |-> mae("ctr"),
              retention_mae |-> mae("retention")]

\* What get_learning_arc() gives its caller.
get_learning_arc(eps) ==
    LET sorted == get_all_episodes(eps)
    IN  IF extract_patterns(sorted).kind = "raised" THEN extract_patterns(sorted)
        ELSE Returned([episodes |-> sorted,
                       patterns |-> extract_patterns(sorted).value,
                       accuracy |-> calculate_accuracy(sorted),
                       total_episodes |-> Len(sorted)])

\* Request bodies with and without the snapshot of the session's
\* DecisionObject, whose claim strength is chosen or not.
ArcDecisionParts ==
    {EmptyDict}
        \cup {[decisions |-> decision_to_dict(new_decision(None, s, 0, 0))] :
                s \in {None, Some(8000)}}

ArcEpisodeData ==
    {[predicted_metrics |-> [ctr |-> c, retention |-> 4000]] @@ d :
        c \in {400, 600}, d \in ArcDecisionParts}

ArcAddEpisode == \E data \in ArcEpisodeData : DoAddEpisode(data, clock, clock)

ArcUpdateMetrics ==
    \E n \in Nums, actual \in StoreActual : DoUpdateMetrics(n, actual, clock)

GetLearningArc ==
    /\ last' = [op |-> "get_learning_arc", ret |-> get_learning_arc(episodes)]
    /\ UNCHANGED <<trackerVars, clock, decisionVars, coreVars>>

ArcNext == ArcAddEpisode \/ ArcUpdateMetrics \/ GetLearningArc

SpecArc == Init /\ [][ArcNext]_vars

\* C26: get_learning_arc returns a result, with total_episodes the number
\* of stored episodes, for every history that add_episode and
\* update_episode_metrics can build, those of two or more episodes with an
\* episode without a decisions snapshot or with one whose claim_strength is
\* unset included; it never fails.
C26_LearningArcNeverFails ==
    last.op = "get_learning_arc" =>
        /\ last.ret.kind = "returned"
        /\ last.ret.value.total_episodes = Len(episodes)
        /\ Len(last.ret.value.episodes) = Len(episodes)
============================================================================
